---- MODULE Spec2Model ----
(***************************************************************************)
(* Translation caches (modules/hybrid_cache.py, the two-tier cache, and    *)
(* modules/translation_cache.py, the SQLite-only cache the translator      *)
(* opens) and per-series glossary store (modules/glossary_manager.py) of   *)
(* the subtitle translator.                                                *)
(*                                                                         *)
(* Text is a sequence of one-character strings, so that strip(), lower()   *)
(* and the whitespace collapse of the hash functions are computed and not  *)
(* assumed.  md5 is taken to be injective: a hash is the content string    *)
(* that the code feeds to md5.                                             *)
(***************************************************************************)
EXTENDS Integers, Sequences, FiniteSets, TLC

VARIABLES
    memory_cache,   \* HybridCache.memory_cache : hash -> CacheEntry
    access_order,   \* HybridCache.access_order : list of hashes, LRU first
    disk,           \* table translations of the cache file : hash -> row
    now,            \* wall clock (CURRENT_TIMESTAMP), in abstract days
    hung,           \* TRUE once _evict_lru_entries spins with the lock held
    last,           \* the last cache operation that returned, and its result
    ops,            \* number of operations and clock ticks so far
    translations,   \* TranslationCache: table translations : hash -> row
    heap,           \* the dict objects that hold series documents : oid -> doc
    series_v2,      \* GlossaryManager._series_v2 : series id -> oid
    series_locks,   \* GlossaryManager._series_locks : series id -> holder
    series_glossary_cache,   \* flat glossary per series
    series_cache_timestamps, \* time the flat glossary was built
    files,          \* glossaries/series_<id>.json
    tmp_files,      \* glossaries/series_<id>.json.tmp
    corrupt_files,  \* series with a glossaries/series_<id>.json.corrupt.<ts>
    th,             \* per thread: the call it is in and where it is
    calls,          \* number of glossary calls and clock ticks so far
    line,           \* a subtitle line handed to LineClassifier.classify
    classified,     \* the results of classify: of line, then of its own output
    subtitle_file,  \* the base subtitle file: its format and its cue texts
    config,         \* srt_batch_size, ass_batch_size, skip_existing
    dir,            \* the directory: the base file, the translated file
    proc,           \* FileProcessor: runs made, place in process_all, stop_flag
    tr,             \* the Translator of the run
    job,            \* the open translate_subtitle call: its place and locals
    net,            \* the requests of the run and the fate of the file
    tt,             \* one Translator and its translate_text calls, step by step
    built,          \* the job handed to PromptBuilder.build and its prompt
    reply_parse,    \* a batch reply and what _parse_numbered_batch_response gave
    ens,            \* threads in _ensure_ollama_model_available, and the server
    tcc,            \* threads inside TranslationCache.get and set, statement by statement
    tjob,           \* a TranslationJob and its translation_context
    cm,             \* the CancellationManager and the threads that use it
    accessed        \* CacheEntry.last_accessed: the hashes by the time of their last access

cacheVars == <<memory_cache, access_order, disk, hung, last, ops, accessed>>

glossaryVars == <<heap, series_v2, series_locks, series_glossary_cache,
                  series_cache_timestamps, files, tmp_files, corrupt_files,
                  th, calls>>

classifierVars == <<line, classified>>

translatorVars == <<subtitle_file, config, dir, proc, tr, job, net>>

backendVars == <<tt, built, reply_parse, ens>>

sessionVars == <<tcc, tjob, cm>>

pipelineVars == <<classifierVars, translatorVars, backendVars, sessionVars>>

vars == <<memory_cache, access_order, disk, now, hung, last, ops, translations,
          heap, series_v2, series_locks, series_glossary_cache,
          series_cache_timestamps, files, tmp_files, corrupt_files, th, calls,
          line, classified, subtitle_file, config, dir, proc, tr, job, net,
          tt, built, reply_parse, ens, tcc, tjob, cm, accessed>>

----------------------------------------------------------------------------
(* Bounds of the model *)

\* memory_cache_size, scaled down from the 1000..20000 buckets
MemoryCacheSize == 1
\* operations (and clock ticks) in one run; bounds the hit counters and the clock
MaxOps == 4

----------------------------------------------------------------------------
(* Strings *)

Whitespace == {" ", "\t", "\n"}

LowerChar(c) ==
    CASE c = "A" -> "a" [] c = "B" -> "b" [] c = "C" -> "c" [] c = "D" -> "d"
      [] c = "E" -> "e" [] c = "F" -> "f" [] c = "G" -> "g" [] c = "H" -> "h"
      [] c = "I" -> "i" [] c = "J" -> "j" [] c = "K" -> "k" [] c = "L" -> "l"
      [] c = "M" -> "m" [] c = "N" -> "n" [] c = "O" -> "o" [] c = "P" -> "p"
      [] c = "Q" -> "q" [] c = "R" -> "r" [] c = "S" -> "s" [] c = "T" -> "t"
      [] c = "U" -> "u" [] c = "V" -> "v" [] c = "W" -> "w" [] c = "X" -> "x"
      [] c = "Y" -> "y" [] c = "Z" -> "z"
      [] OTHER -> c

\* str.lower()
Lower(s) == <<>> \o [i \in 1..Len(s) |-> LowerChar(s[i])]

RECURSIVE LStrip(_)
LStrip(s) ==
    IF s = <<>> THEN <<>>
    ELSE IF Head(s) \in Whitespace THEN LStrip(Tail(s)) ELSE s

RECURSIVE RStrip(_)
RStrip(s) ==
    IF s = <<>> THEN <<>>
    ELSE IF s[Len(s)] \in Whitespace THEN RStrip(SubSeq(s, 1, Len(s) - 1)) ELSE s

\* str.strip()
Strip(s) == RStrip(LStrip(s))

\* re.sub(r'\s+', ' ', s)
RECURSIVE CollapseWs(_)
CollapseWs(s) ==
    IF s = <<>> THEN <<>>
    ELSE IF Head(s) \in Whitespace
         THEN <<" ">> \o CollapseWs(LStrip(Tail(s)))
         ELSE <<Head(s)>> \o CollapseWs(Tail(s))

\* re.sub(r'\s+', ' ', text.strip()).lower()
Normalize(s) == Lower(CollapseWs(Strip(s)))

\* SQLite TRIM(x): removes spaces only
RECURSIVE SqlLTrim(_)
SqlLTrim(s) ==
    IF s = <<>> THEN <<>>
    ELSE IF Head(s) = " " THEN SqlLTrim(Tail(s)) ELSE s

RECURSIVE SqlRTrim(_)
SqlRTrim(s) ==
    IF s = <<>> THEN <<>>
    ELSE IF s[Len(s)] = " " THEN SqlRTrim(SubSeq(s, 1, Len(s) - 1)) ELSE s

SqlTrim(s) == SqlRTrim(SqlLTrim(s))

----------------------------------------------------------------------------
(* Inputs *)

Empty == <<>>

TextAbc == <<" ", "A", "b", "c">>
TextXyz == <<"x", "y", "z">>
TextShort == <<"a", "b", " ">>

Texts == {TextAbc, TextXyz, TextShort}

TransSame == <<"A", "b", "c", " ">>
TransUpper == <<"A", "B", "C">>
TransPq == <<"p", "q", " ">>

TransBlank == <<" ", " ">>

Translations == {TransSame, TransUpper, TransPq, Empty}

\* the translations handed to the SQLite-only cache
TcTranslations == Translations \cup {TransBlank}

LineHi == <<"H", "i", " ">>

\* (prev_line, next_line)
Contexts == {<<Empty, Empty>>, <<LineHi, Empty>>, <<Empty, LineHi>>}

SrcLang == <<"e", "n">>
TgtLang == <<"p", "t">>

ApiUsed == "ollama"

\* cleanup_old_entries(days)
Days == {0, 1}

----------------------------------------------------------------------------
(* HybridCache: pure parts *)

\* what get returns on a miss or a refusal
None == <<"<None>">>

Put(m, k, v) == [x \in DOMAIN m \cup {k} |-> IF x = k THEN v ELSE m[x]]

Del(m, k) == [x \in DOMAIN m \ {k} |-> m[x]]

EmptyMap == [x \in {} |-> 0]

\* _get_text_hash: md5 of "normalized|src|tgt"
HashV1(text, src, tgt) ==
    Normalize(text) \o <<"|">> \o src \o <<"|">> \o tgt

\* _get_text_hash_v2: md5 of "normalized|prev|next|src|tgt|v2"
HashV2(text, src, tgt, prev, next) ==
    LET prev_norm == IF prev # <<>> THEN Normalize(prev) ELSE <<>>
        next_norm == IF next # <<>> THEN Normalize(next) ELSE <<>>
    IN  Normalize(text) \o <<"|">> \o prev_norm \o <<"|">> \o next_norm
          \o <<"|">> \o src \o <<"|">> \o tgt \o <<"|", "v", "2">>

\* list.remove(x): drops the first occurrence
RECURSIVE RemoveFirst(_, _)
RemoveFirst(seq, x) ==
    IF seq = <<>> THEN <<>>
    ELSE IF Head(seq) = x THEN Tail(seq)
         ELSE <<Head(seq)>> \o RemoveFirst(Tail(seq), x)

InSeq(seq, x) == \E i \in 1..Len(seq) : seq[i] = x

\* _update_access_order
UpdateAccessOrder(order, text_hash) ==
    LET removed == IF InSeq(order, text_hash) THEN RemoveFirst(order, text_hash)
                   ELSE order
        appended == Append(removed, text_hash)
    IN  IF Len(appended) > MemoryCacheSize * 2
        THEN SubSeq(appended, Len(appended) - MemoryCacheSize + 1, Len(appended))
        ELSE appended

\* _evict_lru_entries: the while loop; hung when it can make no progress
RECURSIVE EvictLruEntries(_, _)
EvictLruEntries(mem, order) ==
    IF Cardinality(DOMAIN mem) > MemoryCacheSize
    THEN IF order # <<>>
         THEN LET lru_hash == Head(order)
              IN  EvictLruEntries(IF lru_hash \in DOMAIN mem THEN Del(mem, lru_hash)
                                  ELSE mem,
                                  Tail(order))
         ELSE [mem |-> mem, order |-> order, hung |-> TRUE]
    ELSE [mem |-> mem, order |-> order, hung |-> FALSE]

\* CacheEntry as set builds it
SetEntry(original_text, translated_text, api_used) ==
    [original_text |-> Strip(original_text),
     translated_text |-> Strip(translated_text),
     api_used |-> api_used,
     hit_count |-> 1]

\* the row INSERT OR REPLACE writes
SetRow(original_text, translated_text, api_used, t) ==
    [original_text |-> Strip(original_text),
     translated_text |-> Strip(translated_text),
     api_used |-> api_used,
     hit_count |-> 1,
     created_at |-> t]

\* the two early returns of set
SetRefused(original_text, translated_text) ==
    \/ original_text = <<>>
    \/ translated_text = <<>>
    \/ Len(Strip(original_text)) < 3
    \/ Strip(original_text) = Strip(translated_text)

\* the early return of get
GetRefused(text) == text = <<>> \/ Len(Strip(text)) < 3

\* _promote_to_v2 that forgets the INSERT into the table
PromoteToV2_MemoryOnly(mem, order, dsk, hash_v2, entry, t) ==
    LET v2_entry == [original_text |-> entry.original_text,
                     translated_text |-> entry.translated_text,
                     api_used |-> "v1_promoted",
                     hit_count |-> 1]
    IN  [mem |-> Put(mem, hash_v2, v2_entry),
         order |-> UpdateAccessOrder(order, hash_v2),
         disk |-> dsk]

\* _promote_to_v2: memory entry without eviction, INSERT OR IGNORE on disk
PromoteToV2(mem, order, dsk, hash_v2, entry, t) ==
    LET v2_entry == [original_text |-> entry.original_text,
                     translated_text |-> entry.translated_text,
                     api_used |-> "v1_promoted",
                     hit_count |-> 1]
        v2_row == [original_text |-> entry.original_text,
                   translated_text |-> entry.translated_text,
                   api_used |-> "v1_promoted",
                   hit_count |-> 1,
                   created_at |-> t]
    IN  [mem |-> Put(mem, hash_v2, v2_entry),
         order |-> UpdateAccessOrder(order, hash_v2),
         disk |-> IF hash_v2 \in DOMAIN dsk THEN dsk ELSE Put(dsk, hash_v2, v2_row)]

\* get, memory branch for one hash
GetMemoryHit(mem, order, dsk, text_hash, hash_v1, hash_v2, t) ==
    LET entry == [mem[text_hash] EXCEPT !.hit_count = @ + 1]
        mem1 == Put(mem, text_hash, entry)
        order1 == UpdateAccessOrder(order, text_hash)
        p == PromoteToV2(mem1, order1, dsk, hash_v2, entry, t)
        promote == text_hash = hash_v1 /\ hash_v2 \notin DOMAIN mem1
    IN  [mem |-> IF promote THEN p.mem ELSE mem1,
         order |-> IF promote THEN p.order ELSE order1,
         disk |-> IF promote THEN p.disk ELSE dsk,
         hung |-> FALSE,
         res |-> entry.translated_text,
         path |-> IF text_hash = hash_v2 THEN "mem_v2" ELSE "mem_v1"]

\* get, disk branch for one hash whose row exists
GetDiskHit(mem, order, dsk, text_hash, hash_v1, hash_v2, t) ==
    LET row == dsk[text_hash]
        entry == [original_text |-> row.original_text,
                  translated_text |-> row.translated_text,
                  api_used |-> "cached",
                  hit_count |-> row.hit_count + 1]
        ev == EvictLruEntries(Put(mem, text_hash, entry),
                              UpdateAccessOrder(order, text_hash))
        dsk1 == Put(dsk, text_hash, [row EXCEPT !.hit_count = @ + 1])
        p == PromoteToV2(ev.mem, ev.order, dsk1, hash_v2, entry, t)
        promote == text_hash = hash_v1 /\ hash_v2 # hash_v1
    IN  IF ev.hung
        THEN [mem |-> ev.mem, order |-> ev.order, disk |-> dsk, hung |-> TRUE,
              res |-> None, path |-> "hung"]
        ELSE [mem |-> IF promote THEN p.mem ELSE ev.mem,
              order |-> IF promote THEN p.order ELSE ev.order,
              disk |-> IF promote THEN p.disk ELSE dsk1,
              hung |-> FALSE,
              res |-> row.translated_text,
              path |-> IF text_hash = hash_v2 THEN "disk_v2" ELSE "disk_v1"]

\* get: hashes_to_try = [hash_v2, hash_v1], memory before disk for each
RECURSIVE GetProbe(_, _, _, _, _, _, _)
GetProbe(mem, order, dsk, hashes_to_try, hash_v1, hash_v2, t) ==
    IF hashes_to_try = <<>>
    THEN [mem |-> mem, order |-> order, disk |-> dsk, hung |-> FALSE,
          res |-> None, path |-> "miss"]
    ELSE LET text_hash == Head(hashes_to_try)
         IN  IF text_hash \in DOMAIN mem
             THEN GetMemoryHit(mem, order, dsk, text_hash, hash_v1, hash_v2, t)
             ELSE IF text_hash \in DOMAIN dsk
                  THEN GetDiskHit(mem, order, dsk, text_hash, hash_v1, hash_v2, t)
                  ELSE GetProbe(mem, order, dsk, Tail(hashes_to_try),
                                hash_v1, hash_v2, t)

\* HybridCache.get as a function of the cache state
GetOutcome(mem, order, dsk, text, src, tgt, prev, next, t) ==
    IF GetRefused(text)
    THEN [mem |-> mem, order |-> order, disk |-> dsk, hung |-> FALSE,
          res |-> None, path |-> "refused"]
    ELSE LET hash_v2 == HashV2(text, src, tgt, prev, next)
             hash_v1 == HashV1(text, src, tgt)
         IN  GetProbe(mem, order, dsk, <<hash_v2, hash_v1>>, hash_v1, hash_v2, t)

\* HybridCache.set, memory part: both entries, then one eviction pass
SetMemory(mem, order, text, translated, src, tgt, api_used, prev, next) ==
    LET hash_v1 == HashV1(text, src, tgt)
        hash_v2 == HashV2(text, src, tgt, prev, next)
        entry == SetEntry(text, translated, api_used)
        mem1 == Put(mem, hash_v1, entry)
        order1 == UpdateAccessOrder(order, hash_v1)
        mem2 == IF hash_v2 # hash_v1 THEN Put(mem1, hash_v2, entry) ELSE mem1
        order2 == IF hash_v2 # hash_v1 THEN UpdateAccessOrder(order1, hash_v2)
                  ELSE order1
    IN  EvictLruEntries(mem2, order2)

\* HybridCache.set, disk part: INSERT OR REPLACE of both hashes
SetDisk(dsk, text, translated, src, tgt, api_used, prev, next, t) ==
    LET hash_v1 == HashV1(text, src, tgt)
        hash_v2 == HashV2(text, src, tgt, prev, next)
        row == SetRow(text, translated, api_used, t)
        dsk1 == Put(dsk, hash_v1, row)
    IN  IF hash_v2 # hash_v1 THEN Put(dsk1, hash_v2, row) ELSE dsk1

\* rows cleanup_bad_translations selects
BadHashes(dsk) ==
    {h \in DOMAIN dsk :
        Lower(SqlTrim(dsk[h].original_text)) = Lower(SqlTrim(dsk[h].translated_text))}

RECURSIVE RemoveAll(_, _)
RemoveAll(seq, S) ==
    IF seq = <<>> THEN <<>>
    ELSE IF Head(seq) \in S THEN RemoveAll(Tail(seq), S)
         ELSE <<Head(seq)>> \o RemoveAll(Tail(seq), S)

\* entry.last_accessed = time.time() of set, of a hit and of _promote_to_v2,
\* kept as the order of the hashes by their last access, the latest last;
\* touched: the hashes the operation has just stamped
RECURSIVE Touch(_, _)
Touch(acc, hashes) ==
    IF hashes = <<>> THEN [acc EXCEPT !.touched = {}]
    ELSE LET rest == Touch(acc, SubSeq(hashes, 1, Len(hashes) - 1))
             h == hashes[Len(hashes)]
         IN  [recent |-> Append(IF InSeq(rest.recent, h)
                                THEN RemoveFirst(rest.recent, h)
                                ELSE rest.recent, h),
              touched |-> rest.touched \cup {h}]

\* the entries get stamps: the one it hit, and the v2 entry it promoted to
GetTouches(dsk, path, hash_v1, hash_v2) ==
    IF path \in {"mem_v2", "disk_v2"} THEN <<hash_v2>>
    ELSE IF path \in {"mem_v1", "disk_v1"} THEN <<hash_v1, hash_v2>>
    ELSE IF path = "hung"
         THEN IF hash_v2 \in DOMAIN dsk THEN <<hash_v2>> ELSE <<hash_v1>>
         ELSE <<>>

----------------------------------------------------------------------------
(* HybridCache: operations *)

NoOp == [op |-> "none", text |-> <<>>, prev |-> <<>>, next |-> <<>>,
         translated |-> <<>>, res |-> None, path |-> "none"]

CacheInit ==
    /\ memory_cache = EmptyMap
    /\ access_order = <<>>
    /\ disk = EmptyMap
    /\ now = 0
    /\ hung = FALSE
    /\ last = NoOp
    /\ ops = 0
    /\ accessed = [recent |-> <<>>, touched |-> {}]

\* HybridCache.set(original_text, translated_text, src, tgt, api_used, prev, next)
Set(text, translated, prev, next) ==
    /\ ~hung
    /\ UNCHANGED <<glossaryVars, translations, pipelineVars>>
    /\ ops < MaxOps
    /\ ops' = ops + 1
    /\ IF SetRefused(text, translated)
       THEN /\ last' = [NoOp EXCEPT !.op = "set", !.path = "refused"]
            /\ accessed' = Touch(accessed, <<>>)
            /\ UNCHANGED <<memory_cache, access_order, disk, hung>>
       ELSE LET ev == SetMemory(memory_cache, access_order, text, translated,
                                SrcLang, TgtLang, ApiUsed, prev, next)
            IN  /\ memory_cache' = ev.mem
                /\ accessed' = Touch(accessed,
                                     <<HashV1(text, SrcLang, TgtLang),
                                       HashV2(text, SrcLang, TgtLang, prev, next)>>)
                /\ access_order' = ev.order
                /\ hung' = ev.hung
                /\ IF ev.hung
                   THEN UNCHANGED <<disk, last>>
                   ELSE /\ disk' = SetDisk(disk, text, translated, SrcLang, TgtLang,
                                           ApiUsed, prev, next, now)
                        /\ last' = [op |-> "set", text |-> text, prev |-> prev,
                                    next |-> next, translated |-> translated,
                                    res |-> None, path |-> "stored"]
    /\ UNCHANGED now

\* HybridCache.get(text, src, tgt, prev, next)
Get(text, prev, next) ==
    /\ ~hung
    /\ UNCHANGED <<glossaryVars, translations, pipelineVars>>
    /\ ops < MaxOps
    /\ ops' = ops + 1
    /\ LET out == GetOutcome(memory_cache, access_order, disk, text,
                             SrcLang, TgtLang, prev, next, now)
       IN  /\ memory_cache' = out.mem
           /\ access_order' = out.order
           /\ disk' = out.disk
           /\ hung' = out.hung
           /\ accessed' = Touch(accessed,
                                GetTouches(disk, out.path,
                                           HashV1(text, SrcLang, TgtLang),
                                           HashV2(text, SrcLang, TgtLang,
                                                  prev, next)))
           /\ IF out.hung
              THEN UNCHANGED last
              ELSE IF out.path = "refused"
                   THEN last' = [NoOp EXCEPT !.op = "get", !.path = "refused"]
                   ELSE last' = [op |-> "get", text |-> text, prev |-> prev,
                                 next |-> next, translated |-> <<>>,
                                 res |-> out.res, path |-> out.path]
    /\ UNCHANGED now

\* HybridCache.cleanup_old_entries(days): DELETE ... WHERE created_at < cutoff
CleanupOldEntries(days) ==
    /\ ~hung
    /\ UNCHANGED <<glossaryVars, translations, pipelineVars>>
    /\ ops < MaxOps
    /\ ops' = ops + 1
    /\ \E h \in DOMAIN disk : disk[h].created_at < now - days
    /\ disk' = [h \in {k \in DOMAIN disk : ~(disk[k].created_at < now - days)}
                  |-> disk[h]]
    /\ last' = [NoOp EXCEPT !.op = "cleanup_old"]
    /\ accessed' = Touch(accessed, <<>>)
    /\ UNCHANGED <<memory_cache, access_order, now, hung>>

\* HybridCache.cleanup_bad_translations
CleanupBadTranslations ==
    /\ ~hung
    /\ UNCHANGED <<glossaryVars, translations, pipelineVars>>
    /\ ops < MaxOps
    /\ ops' = ops + 1
    /\ BadHashes(disk) # {}
    /\ LET bad == BadHashes(disk)
       IN  /\ disk' = [h \in DOMAIN disk \ bad |-> disk[h]]
           /\ memory_cache' = [h \in DOMAIN memory_cache \ bad |-> memory_cache[h]]
           /\ access_order' = RemoveAll(access_order, bad \cap DOMAIN memory_cache)
    /\ last' = [NoOp EXCEPT !.op = "cleanup_bad"]
    /\ accessed' = Touch(accessed, <<>>)
    /\ UNCHANGED <<now, hung>>

\* HybridCache.clear_memory_cache
ClearMemoryCache ==
    /\ ~hung
    /\ UNCHANGED <<glossaryVars, translations, pipelineVars>>
    /\ ops < MaxOps
    /\ ops' = ops + 1
    /\ memory_cache # EmptyMap
    /\ memory_cache' = EmptyMap
    /\ access_order' = <<>>
    /\ last' = [NoOp EXCEPT !.op = "clear_memory"]
    /\ accessed' = Touch(accessed, <<>>)
    /\ UNCHANGED <<disk, now, hung>>

\* HybridCache.clear_disk_cache
ClearDiskCache ==
    /\ ~hung
    /\ UNCHANGED <<glossaryVars, translations, pipelineVars>>
    /\ ops < MaxOps
    /\ ops' = ops + 1
    /\ disk # EmptyMap
    /\ disk' = EmptyMap
    /\ memory_cache' = EmptyMap
    /\ access_order' = <<>>
    /\ last' = [NoOp EXCEPT !.op = "clear_disk"]
    /\ accessed' = Touch(accessed, <<>>)
    /\ UNCHANGED <<now, hung>>

\* time passes between operations
Tick ==
    /\ ~hung
    /\ UNCHANGED <<glossaryVars, translations, pipelineVars>>
    /\ ops < MaxOps
    /\ ops' = ops + 1
    /\ now' = now + 1
    /\ UNCHANGED <<memory_cache, access_order, disk, hung, last, accessed>>

SetStep == \E text \in Texts, translated \in Translations, c \in Contexts :
              Set(text, translated, c[1], c[2])

GetStep == \E text \in Texts, c \in Contexts : Get(text, c[1], c[2])

CleanupOldStep == \E days \in Days : CleanupOldEntries(days)

CacheNext ==
    \/ SetStep
    \/ GetStep
    \/ CleanupOldStep
    \/ CleanupBadTranslations
    \/ ClearMemoryCache
    \/ ClearDiskCache
    \/ Tick

----------------------------------------------------------------------------
(* TranslationCache (modules/translation_cache.py): SQLite only *)

\* `if result:` on the value _get_by_hash returns
Truthy(result) == result # None /\ result # <<>>

\* _get_by_hash: UPDATE ... SET hit_count = hit_count + 1 ... RETURNING
TcGetByHash(tbl, text_hash) ==
    IF text_hash \in DOMAIN tbl
    THEN [tbl |-> [tbl EXCEPT ![text_hash].hit_count = @ + 1],
          result |-> tbl[text_hash].translated_text]
    ELSE [tbl |-> tbl, result |-> None]

\* _save_by_hash: INSERT OR REPLACE, hit_count takes the column default
TcSaveByHash(tbl, text_hash, original_text, translated_text, api_used) ==
    Put(tbl, text_hash,
        [original_text |-> Strip(original_text),
         translated_text |-> Strip(translated_text),
         api_used |-> api_used, hit_count |-> 1])

\* TranslationCache.get
TcGetOutcome(tbl, text, src, tgt, prev, next) ==
    IF GetRefused(text) THEN [tbl |-> tbl, res |-> None, path |-> "refused"]
    ELSE LET hash_v2 == HashV2(text, src, tgt, prev, next)
             hash_v1 == HashV1(text, src, tgt)
             r2 == TcGetByHash(tbl, hash_v2)
             r1 == TcGetByHash(r2.tbl, hash_v1)
         IN  IF Truthy(r2.result)
             THEN [tbl |-> r2.tbl, res |-> r2.result, path |-> "tc_v2"]
             ELSE IF Truthy(r1.result)
                  THEN [tbl |-> TcSaveByHash(r1.tbl, hash_v2, text, r1.result,
                                             "cache_v1_promote"),
                        res |-> r1.result, path |-> "tc_v1"]
                  ELSE [tbl |-> r1.tbl, res |-> None, path |-> "miss"]

\* TranslationCache.set, past the refusals
TcSetRows(tbl, text, translated, src, tgt, api_used, prev, next) ==
    LET hash_v1 == HashV1(text, src, tgt)
        hash_v2 == HashV2(text, src, tgt, prev, next)
        t1 == TcSaveByHash(tbl, hash_v1, text, translated, api_used)
    IN  IF hash_v2 # hash_v1
        THEN TcSaveByHash(t1, hash_v2, text, translated, api_used)
        ELSE t1

TcInit == translations = EmptyMap

TcFrame ==
    /\ ops < MaxOps
    /\ ops' = ops + 1
    /\ UNCHANGED <<memory_cache, access_order, disk, hung, now, accessed>>
    /\ UNCHANGED <<glossaryVars, pipelineVars>>

\* TranslationCache.set(original_text, translated_text, src, tgt, api_used, prev, next)
TcSet(text, translated, prev, next) ==
    /\ TcFrame
    /\ IF SetRefused(text, translated)
       THEN /\ last' = [NoOp EXCEPT !.op = "set", !.path = "refused"]
            /\ UNCHANGED translations
       ELSE /\ translations' = TcSetRows(translations, text, translated, SrcLang,
                                         TgtLang, ApiUsed, prev, next)
            /\ last' = [op |-> "set", text |-> text, prev |-> prev, next |-> next,
                        translated |-> translated, res |-> None, path |-> "stored"]

\* TranslationCache.get(text, src, tgt, prev, next)
TcGet(text, prev, next) ==
    /\ TcFrame
    /\ LET out == TcGetOutcome(translations, text, SrcLang, TgtLang, prev, next)
       IN  /\ translations' = out.tbl
           /\ IF out.path = "refused"
              THEN last' = [NoOp EXCEPT !.op = "get", !.path = "refused"]
              ELSE last' = [op |-> "get", text |-> text, prev |-> prev, next |-> next,
                            translated |-> <<>>, res |-> out.res, path |-> out.path]

\* TranslationCache.cleanup_bad_translations
TcCleanupBadTranslations ==
    /\ TcFrame
    /\ translations' =
           [h \in {x \in DOMAIN translations :
                      Lower(SqlTrim(translations[x].original_text))
                          # Lower(SqlTrim(translations[x].translated_text))}
               |-> translations[h]]
    /\ last' = [NoOp EXCEPT !.op = "cleanup_bad"]

TcSetStep == \E text \in Texts, translated \in TcTranslations, c \in Contexts :
                TcSet(text, translated, c[1], c[2])

TcGetStep == \E text \in Texts, c \in Contexts : TcGet(text, c[1], c[2])

TcNext ==
    \/ TcSetStep
    \/ TcGetStep
    \/ TcCleanupBadTranslations

----------------------------------------------------------------------------
(* GlossaryManager: inputs *)

Threads == {"t1", "t2"}

NoThread == "none"

\* series ids
Series == {7}

\* glossary calls and clock ticks in one run
MaxCalls == 4

\* cache_ttl_seconds, in days
CacheTtlDays == 1

\* SCHEMA_VERSION
SCHEMA_VERSION == 2

\* _STOPWORDS_GLOSSARY
STOPWORDS_GLOSSARY ==
    {<<"t", "h", "e">>, <<"a", "n", "d">>, <<"f", "o", "r">>,
     <<"y", "o", "u">>, <<"a", "r", "e">>, <<"n", "o", "t">>,
     <<"b", "u", "t">>, <<"h", "i", "s">>, <<"h", "e", "r">>,
     <<"h", "a", "s">>, <<"h", "a", "d">>, <<"w", "a", "s">>,
     <<"a", "l", "l">>, <<"c", "a", "n">>, <<"o", "u", "t">>,
     <<"d", "i", "d">>, <<"g", "e", "t">>, <<"h", "i", "m">>,
     <<"s", "a", "y">>, <<"s", "h", "e">>, <<"t", "h", "e", "y">>,
     <<"t", "h", "i", "s">>, <<"w", "i", "t", "h">>, <<"t", "h", "a", "t">>,
     <<"f", "r", "o", "m">>, <<"h", "a", "v", "e">>, <<"w", "i", "l", "l">>,
     <<"o", "n", "e">>, <<"y", "e", "s">>, <<"n", "o">>,
     <<"o", "k">>, <<"o", "h">>, <<"a", "h">>}

\* n copies of piece
Repeat(piece, n) ==
    <<>> \o [i \in 1..(n * Len(piece)) |-> piece[((i - 1) % Len(piece)) + 1]]

TermGoku == <<"G", "o", "k", "u", " ">>
TermNami == <<"n", "a", "m", "i">>
TermThe == <<"T", "h", "e">>
TermOk == <<" ", "o", "k">>
\* a title the Sonarr and AniList answers may hold
TermDbz == <<"D", "B", "Z">>

TrGoku == <<"G", "o", "k", "u">>
TrNami == <<"N", "a", "m", "i", " ">>
\* 80 and 81 characters without a space
Tr80 == Repeat(<<"x">>, 80)
Tr81 == Repeat(<<"x">>, 81)
\* 11 words (10 spaces) and 12 words (11 spaces)
Tr11Words == Repeat(<<"a", " ">>, 10) \o <<"a">>
Tr12Words == Repeat(<<"a", " ">>, 11) \o <<"a">>

\* the dicts passed as `suggested`, in insertion order
SuggestedA == << <<TermGoku, TrGoku>>, <<TermThe, TrGoku>> >>
SuggestedB == << <<TermNami, Tr11Words>>, <<TermOk, TrGoku>>, <<TermGoku, Tr81>> >>
SuggestedC == << <<TermGoku, Tr80>>, <<TermNami, Tr12Words>>, <<TermDbz, TrGoku>> >>

SuggestedDicts == {SuggestedA, SuggestedB, SuggestedC, <<>>}

MinOccurrences == {3, 5}

TermX == <<" ", "x">>

\* the dicts passed as `prescan_flat`: a new key, a key of one character, and
\* a key the file of the series may already hold
PrescanA == << <<TermGoku, TrNami>>, <<TermX, TrGoku>>, <<TermNami, TrGoku>> >>

PrescanDicts == {PrescanA, <<>>}

\* series_glossary built from the Sonarr and AniList answers: none, or one title
NetResults == {<<>>, << <<<<"d", "b", "z">>, <<"D", "B", "Z">>>> >>}

----------------------------------------------------------------------------
(* GlossaryManager: pure parts *)

TermRec(value, source, count, t) ==
    [value |-> value, source |-> source, count |-> count, pinned |-> FALSE,
     last_seen |-> t]

\* a v1 file maps a key to a plain string: source "<str>" marks a value that
\* is no dict
FlatRec(value) ==
    [value |-> value, source |-> "<str>", count |-> 0, pinned |-> FALSE,
     last_seen |-> 0]

NewDoc(t) ==
    [schema_version |-> SCHEMA_VERSION, terms |-> EmptyMap, episodes_scanned |-> 0,
     updated_at |-> t]

Max(a, b) == IF a >= b THEN a ELSE b

\* str.count(' ')
CountSpaces(s) == Cardinality({i \in 1..Len(s) : s[i] = " "})

\* _is_safe_suggested_term without the stopword test
IsSafeSuggestedTerm_NoStopwords(term, translation) ==
    LET term_clean == Lower(Strip(term))
    IN  /\ ~(Len(term_clean) < 3)
        /\ ~(Len(translation) > 80 \/ CountSpaces(translation) > 10)

\* _is_safe_suggested_term
IsSafeSuggestedTerm(term, translation) ==
    LET term_clean == Lower(Strip(term))
    IN  /\ ~(Len(term_clean) < 3)
        /\ ~(term_clean \in STOPWORDS_GLOSSARY)
        /\ ~(Len(translation) > 80 \/ CountSpaces(translation) > 10)

\* merge_suggested_terms: the loop over suggested.items()
\* every existing term is taken for one that the jobs keep up to date
IsAutoTrackOrOther(existing) == TRUE

\* merge_suggested_terms: isinstance(existing, dict) and
\* existing.get('source') == 'auto_track'; every term in memory is a dict
IsAutoTrack(existing) == existing.source = "auto_track"

RECURSIVE MergeSuggestedInto(_, _, _, _)
MergeSuggestedInto(terms, suggested, min_occurrences, t) ==
    IF suggested = <<>> THEN terms
    ELSE LET term == Head(suggested)[1]
             translation == Head(suggested)[2]
             term_lower == Lower(Strip(term))
             merged ==
                 IF ~IsSafeSuggestedTerm(term, translation) THEN terms
                 ELSE IF term_lower \notin DOMAIN terms
                      THEN Put(terms, term_lower,
                               TermRec(Strip(translation), "auto_track",
                                       min_occurrences, t))
                      ELSE IF IsAutoTrack(terms[term_lower])
                           THEN Put(terms, term_lower,
                                    [terms[term_lower] EXCEPT
                                        !.value = Strip(translation),
                                        !.count = Max(@, min_occurrences),
                                        !.last_seen = t])
                           ELSE terms
         IN  MergeSuggestedInto(merged, Tail(suggested), min_occurrences, t)

\* merge_prescan_terms: the loop over prescan_flat.items()
RECURSIVE MergePrescanInto(_, _, _)
MergePrescanInto(terms, prescan_flat, t) ==
    IF prescan_flat = <<>> THEN terms
    ELSE LET key == Lower(Strip(Head(prescan_flat)[1]))
             v == Head(prescan_flat)[2]
             merged ==
                 IF Len(key) < 2 THEN terms
                 ELSE IF key \notin DOMAIN terms
                      THEN Put(terms, key, TermRec(Strip(v), "llm_prescan", 1, t))
                      ELSE terms
         IN  MergePrescanInto(merged, Tail(prescan_flat), t)

\* _migrate_v1_to_v2
MigrateV1ToV2(data, t) ==
    [schema_version |-> SCHEMA_VERSION,
     terms |-> [k \in DOMAIN data.terms |->
                   IF data.terms[k].source # "<str>" THEN data.terms[k]
                   ELSE TermRec(data.terms[k].value, "migrated", 1, t)],
     episodes_scanned |-> data.episodes_scanned,
     updated_at |-> t]

\* load_from_disk returns None: no file, or a file json.load rejects
LoadIsNone(fs, series_id) ==
    series_id \notin DOMAIN fs \/ fs[series_id].kind = "corrupt"

\* load_from_disk when it returns a document
LoadFromDisk(fs, series_id, t) ==
    LET data == fs[series_id].doc
    IN  IF data.schema_version # SCHEMA_VERSION THEN MigrateV1ToV2(data, t) ELSE data

\* get_budgeted_glossary with the default budget, which the series of the
\* model never fill: the series terms, then the flat cache; the entries of
\* the process-wide GLOBAL_GLOSSARY, the same in every state, are left out
GetBudgetedGlossary(hp, v2, flat, series_id) ==
    LET own == IF series_id \in DOMAIN v2
               THEN [k \in DOMAIN hp[v2[series_id]].terms |->
                        hp[v2[series_id]].terms[k].value]
               ELSE EmptyMap
        old == IF series_id \in DOMAIN flat THEN flat[series_id] ELSE EmptyMap
    IN  [k \in DOMAIN own \cup DOMAIN old |-> IF k \in DOMAIN own THEN own[k] ELSE old[k]]

\* _is_cache_valid
IsCacheValid(stamps, series_id, t) ==
    series_id \in DOMAIN stamps /\ t - stamps[series_id] < CacheTtlDays

\* a fresh dict object
NewOid(hp) == CHOOSE n \in 1..(Cardinality(DOMAIN hp) + 1) : n \notin DOMAIN hp

\* the dict objects still referenced
Collect(hp, v2, thr) ==
    [o \in DOMAIN hp \cap ({v2[s] : s \in DOMAIN v2} \cup {thr[t].data : t \in Threads})
        |-> hp[o]]

IdleThread ==
    [pc |-> "idle", op |-> "none", sid |-> 0, suggested |-> <<>>,
     min_occurrences |-> 0, data |-> 0, status |-> "none"]

\* the files a run may start with
FileV2 ==
    [kind |-> "json",
     doc |-> [schema_version |-> SCHEMA_VERSION,
              terms |-> (<<"d", "b", "z">> :> TermRec(<<"D", "B", "Z">>, "sonarr", 1, 0))
                        @@ (<<"n", "a", "m", "i">> :> TermRec(<<"N", "a", "m", "i">>, "auto_track", 4, 0)),
              episodes_scanned |-> 2,
              updated_at |-> 0]]

FileV1 ==
    [kind |-> "json",
     doc |-> [schema_version |-> 1,
              terms |-> (<<"g", "o", "k", "u">> :> FlatRec(<<"S", "o", "n">>)),
              episodes_scanned |-> 1,
              updated_at |-> 0]]

FileCorrupt == [kind |-> "corrupt", doc |-> NewDoc(0)]

InitFiles ==
    {EmptyMap} \cup {[s \in Series |-> f] : f \in {FileV2, FileV1, FileCorrupt}}

\* documents a caller hands to save_to_disk
SaveDocs ==
    {[schema_version |-> SCHEMA_VERSION,
      terms |-> (<<"g", "o", "k", "u">> :> TermRec(<<"G", "o", "k", "u">>, "manual", 1, 0)),
      episodes_scanned |-> 3,
      updated_at |-> 0]}

----------------------------------------------------------------------------
(* GlossaryManager: operations, one step per thread at a time *)

GlossaryInit(fs) ==
    /\ heap = EmptyMap
    /\ series_v2 = EmptyMap
    /\ series_locks = [s \in Series |-> NoThread]
    /\ series_glossary_cache = EmptyMap
    /\ series_cache_timestamps = EmptyMap
    /\ files \in fs
    /\ tmp_files = EmptyMap
    /\ corrupt_files = {}
    /\ th = [t \in Threads |-> IdleThread]
    /\ calls = 0

Called(t) ==
    /\ th[t].pc = "idle"
    /\ calls < MaxCalls
    /\ calls' = calls + 1
    /\ UNCHANGED <<cacheVars, translations, corrupt_files, pipelineVars>>

Stepped ==
    /\ UNCHANGED <<calls, now, corrupt_files>>
    /\ UNCHANGED <<cacheVars, translations, pipelineVars>>

\* merge_suggested_terms: entry, up to `with lock`
CallMergeSuggestedTerms(t, series_id, suggested, min_occurrences) ==
    /\ Called(t)
    /\ th' = [th EXCEPT ![t] =
                 [IdleThread EXCEPT !.op = "merge", !.sid = series_id,
                                    !.suggested = suggested,
                                    !.min_occurrences = min_occurrences,
                                    !.pc = IF suggested = <<>> THEN "idle"
                                           ELSE "merge_wait",
                                    !.status = IF suggested = <<>> THEN "returned"
                                               ELSE "running"]]
    /\ heap' = Collect(heap, series_v2, th')
    /\ UNCHANGED <<series_v2, series_locks, series_glossary_cache,
                   series_cache_timestamps, files, tmp_files, now>>

\* merge_suggested_terms: `with lock` acquires the series lock
MergeAcquire(t) ==
    /\ th[t].pc = "merge_wait"
    /\ series_locks[th[t].sid] = NoThread
    /\ series_locks' = [series_locks EXCEPT ![th[t].sid] = t]
    /\ th' = [th EXCEPT ![t].pc = "merge_body"]
    /\ Stepped
    /\ UNCHANGED <<heap, series_v2, series_glossary_cache,
                   series_cache_timestamps, files, tmp_files>>

\* merge_suggested_terms: the body under the lock, up to the call of
\* save_to_disk, which stops at its own `with lock`
MergeBody(t) ==
    /\ th[t].pc = "merge_body"
    /\ LET series_id == th[t].sid
           present == series_id \in DOMAIN series_v2
           oid == IF present THEN series_v2[series_id] ELSE NewOid(heap)
           v2 == IF present THEN heap[oid] ELSE NewDoc(now)
           terms == MergeSuggestedInto(v2.terms, th[t].suggested,
                                       th[t].min_occurrences, now)
           heap1 == Put(heap, oid, [v2 EXCEPT !.terms = terms,
                                              !.episodes_scanned = @ + 1])
           v2map == Put(series_v2, series_id, oid)
       IN  /\ series_v2' = v2map
           /\ th' = [th EXCEPT ![t].pc = "save_wait", ![t].data = oid]
           /\ heap' = Collect(heap1, v2map, th')
           /\ series_glossary_cache' =
                  Put(series_glossary_cache, series_id,
                      GetBudgetedGlossary(heap1, v2map, series_glossary_cache, series_id))
           /\ series_cache_timestamps' = Put(series_cache_timestamps, series_id, now)
    /\ Stepped
    /\ UNCHANGED <<series_locks, files, tmp_files>>

\* merge_prescan_terms: entry, up to `with lock`
CallMergePrescanTerms(t, series_id, prescan_flat) ==
    /\ Called(t)
    /\ th' = [th EXCEPT ![t] =
                 [IdleThread EXCEPT !.op = "prescan", !.sid = series_id,
                                    !.suggested = prescan_flat,
                                    !.pc = IF prescan_flat = <<>> THEN "idle"
                                           ELSE "prescan_wait",
                                    !.status = IF prescan_flat = <<>> THEN "returned"
                                               ELSE "running"]]
    /\ heap' = Collect(heap, series_v2, th')
    /\ UNCHANGED <<series_v2, series_locks, series_glossary_cache,
                   series_cache_timestamps, files, tmp_files, now>>

\* merge_prescan_terms: `with lock` acquires the series lock
PrescanAcquire(t) ==
    /\ th[t].pc = "prescan_wait"
    /\ series_locks[th[t].sid] = NoThread
    /\ series_locks' = [series_locks EXCEPT ![th[t].sid] = t]
    /\ th' = [th EXCEPT ![t].pc = "prescan_body"]
    /\ Stepped
    /\ UNCHANGED <<heap, series_v2, series_glossary_cache,
                   series_cache_timestamps, files, tmp_files>>

\* merge_prescan_terms: the body under the lock, up to the call of
\* save_to_disk, which stops at its own `with lock`
PrescanBody(t) ==
    /\ th[t].pc = "prescan_body"
    /\ LET series_id == th[t].sid
           present == series_id \in DOMAIN series_v2
           oid == IF present THEN series_v2[series_id] ELSE NewOid(heap)
           v2 == IF present THEN heap[oid] ELSE NewDoc(now)
           terms == MergePrescanInto(v2.terms, th[t].suggested, now)
           heap1 == Put(heap, oid, [v2 EXCEPT !.terms = terms,
                                              !.episodes_scanned = 1])
           v2map == Put(series_v2, series_id, oid)
       IN  /\ series_v2' = v2map
           /\ th' = [th EXCEPT ![t].pc = "save_wait", ![t].data = oid]
           /\ heap' = Collect(heap1, v2map, th')
           /\ series_glossary_cache' =
                  Put(series_glossary_cache, series_id,
                      GetBudgetedGlossary(heap1, v2map, series_glossary_cache, series_id))
           /\ series_cache_timestamps' = Put(series_cache_timestamps, series_id, now)
    /\ Stepped
    /\ UNCHANGED <<series_locks, files, tmp_files>>

\* save_to_disk called directly with a document of the caller
CallSaveToDisk(t, series_id, data) ==
    /\ Called(t)
    /\ LET oid == NewOid(heap)
       IN  /\ th' = [th EXCEPT ![t] =
                        [IdleThread EXCEPT !.op = "save", !.sid = series_id,
                                           !.pc = "save_wait", !.data = oid,
                                           !.status = "running"]]
           /\ heap' = Collect(Put(heap, oid, data), series_v2, th')
    /\ UNCHANGED <<series_v2, series_locks, series_glossary_cache,
                   series_cache_timestamps, files, tmp_files, now>>

\* save_to_disk: `with lock` acquires the series lock
SaveAcquire(t) ==
    /\ th[t].pc = "save_wait"
    /\ series_locks[th[t].sid] = NoThread
    /\ series_locks' = [series_locks EXCEPT ![th[t].sid] = t]
    /\ th' = [th EXCEPT ![t].pc = "save_write"]
    /\ Stepped
    /\ UNCHANGED <<heap, series_v2, series_glossary_cache,
                   series_cache_timestamps, files, tmp_files>>

\* save_to_disk under the lock: stamps the document, dumps it to the .tmp
\* file, then f.fsync() raises AttributeError (a file object has no fsync),
\* which `except OSError` does not catch: the lock is released, os.replace is
\* not reached, and the exception leaves save_to_disk and its caller
SaveWrite(t) ==
    /\ th[t].pc = "save_write"
    /\ LET series_id == th[t].sid
           stamped == [heap[th[t].data] EXCEPT !.schema_version = SCHEMA_VERSION,
                                               !.updated_at = now]
       IN  /\ tmp_files' = Put(tmp_files, series_id, [kind |-> "json", doc |-> stamped])
           /\ th' = [th EXCEPT ![t].pc = "idle", ![t].status = "AttributeError"]
           /\ heap' = Collect(Put(heap, th[t].data, stamped), series_v2, th')
           /\ series_locks' = [series_locks EXCEPT ![series_id] = NoThread]
    /\ Stepped
    /\ UNCHANGED <<series_v2, series_glossary_cache, series_cache_timestamps, files>>

\* save_to_disk under the lock when open(tmp, 'w') raises OSError: the .tmp
\* file is unlinked and False is returned
SaveOSError(t) ==
    /\ th[t].pc = "save_write"
    /\ LET series_id == th[t].sid
           stamped == [heap[th[t].data] EXCEPT !.schema_version = SCHEMA_VERSION,
                                               !.updated_at = now]
       IN  /\ tmp_files' = Del(tmp_files, series_id)
           /\ th' = [th EXCEPT ![t].pc = "idle", ![t].status = "False"]
           /\ heap' = Collect(Put(heap, th[t].data, stamped), series_v2, th')
           /\ series_locks' = [series_locks EXCEPT ![series_id] = NoThread]
    /\ Stepped
    /\ UNCHANGED <<series_v2, series_glossary_cache, series_cache_timestamps, files>>

\* fetch_from_sonarr_and_anilist: disk first, then the flat cache, else the
\* requests to Sonarr and AniList go out
CallFetch(t, series_id) ==
    /\ Called(t)
    /\ IF ~LoadIsNone(files, series_id)
       THEN LET oid == NewOid(heap)
                heap1 == Put(heap, oid, LoadFromDisk(files, series_id, now))
                v2map == Put(series_v2, series_id, oid)
            IN  /\ series_v2' = v2map
                /\ th' = [th EXCEPT ![t] =
                             [IdleThread EXCEPT !.op = "fetch", !.sid = series_id,
                                                !.status = "returned"]]
                /\ heap' = Collect(heap1, v2map, th')
                /\ series_glossary_cache' =
                       Put(series_glossary_cache, series_id,
                           GetBudgetedGlossary(heap1, v2map, series_glossary_cache,
                                               series_id))
                /\ series_cache_timestamps' =
                       Put(series_cache_timestamps, series_id, now)
       ELSE /\ th' = [th EXCEPT ![t] =
                         [IdleThread EXCEPT
                             !.op = "fetch", !.sid = series_id,
                             !.pc = IF IsCacheValid(series_cache_timestamps, series_id, now)
                                    THEN "idle" ELSE "fetch_net",
                             !.status = IF IsCacheValid(series_cache_timestamps,
                                                        series_id, now)
                                        THEN "returned" ELSE "running"]]
            /\ heap' = Collect(heap, series_v2, th')
            /\ UNCHANGED <<series_v2, series_glossary_cache, series_cache_timestamps>>
    /\ UNCHANGED <<series_locks, files, tmp_files, now>>

\* fetch_from_sonarr_and_anilist: the answers are in; the v2 document is put
\* in _series_v2 and handed to save_to_disk
FetchNet(t, series_glossary) ==
    /\ th[t].pc = "fetch_net"
    /\ LET series_id == th[t].sid
           oid == NewOid(heap)
           v2_data == [NewDoc(now) EXCEPT
                          !.terms = [k \in {series_glossary[i][1] :
                                              i \in 1..Len(series_glossary)} |->
                                        TermRec(series_glossary[
                                                    CHOOSE i \in 1..Len(series_glossary) :
                                                        series_glossary[i][1] = k][2],
                                                "sonarr", 1, now)]]
           v2map == Put(series_v2, series_id, oid)
       IN  /\ series_v2' = v2map
           /\ th' = [th EXCEPT ![t].pc = "save_wait", ![t].data = oid]
           /\ heap' = Collect(Put(heap, oid, v2_data), v2map, th')
    /\ Stepped
    /\ UNCHANGED <<series_locks, series_glossary_cache, series_cache_timestamps,
                   files, tmp_files>>

\* fetch_from_sonarr_and_anilist: Sonarr answers with a status other than
\* 200 and the function returns the empty dict at once
FetchNetRefused(t) ==
    /\ th[t].pc = "fetch_net"
    /\ th' = [th EXCEPT ![t].pc = "idle", ![t].status = "returned"]
    /\ Stepped
    /\ UNCHANGED <<heap, series_v2, series_locks, series_glossary_cache,
                   series_cache_timestamps, files, tmp_files>>

\* Translator.translate_subtitle without Sonarr keys: load_from_disk, then
\* _series_v2[series_id] = disk
CallTranslatorLoad(t, series_id) ==
    /\ Called(t)
    /\ th' = [th EXCEPT ![t] =
                 [IdleThread EXCEPT !.op = "load", !.sid = series_id,
                                    !.status = "returned"]]
    /\ IF LoadIsNone(files, series_id)
       THEN /\ heap' = Collect(heap, series_v2, th')
            /\ UNCHANGED series_v2
       ELSE LET oid == NewOid(heap)
                v2map == Put(series_v2, series_id, oid)
            IN  /\ series_v2' = v2map
                /\ heap' = Collect(Put(heap, oid, LoadFromDisk(files, series_id, now)),
                                   v2map, th')
    /\ UNCHANGED <<series_locks, series_glossary_cache, series_cache_timestamps,
                   files, tmp_files, now>>

\* clear_cache(series_id)
CallClearCache(t, series_id) ==
    /\ Called(t)
    /\ series_v2' = Del(series_v2, series_id)
    /\ series_glossary_cache' = Del(series_glossary_cache, series_id)
    /\ series_cache_timestamps' = Del(series_cache_timestamps, series_id)
    /\ th' = [th EXCEPT ![t] =
                 [IdleThread EXCEPT !.op = "clear", !.sid = series_id,
                                    !.status = "returned"]]
    /\ heap' = Collect(heap, series_v2', th')
    /\ UNCHANGED <<series_locks, files, tmp_files, now>>

\* time passes
GlossaryTick ==
    /\ calls < MaxCalls
    /\ calls' = calls + 1
    /\ now' = now + 1
    /\ UNCHANGED <<cacheVars, translations, pipelineVars>>
    /\ UNCHANGED <<heap, series_v2, series_locks, series_glossary_cache,
                   series_cache_timestamps, files, tmp_files, corrupt_files, th>>

\* the steps of a call that is under way
ThreadStep(t) ==
    \/ MergeAcquire(t)
    \/ MergeBody(t)
    \/ PrescanAcquire(t)
    \/ PrescanBody(t)
    \/ SaveAcquire(t)
    \/ SaveWrite(t)
    \/ SaveOSError(t)
    \/ FetchNetRefused(t)
    \/ \E r \in NetResults : FetchNet(t, r)

MergeCallStep ==
    \E t \in Threads, s \in Series, d \in SuggestedDicts, m \in MinOccurrences :
        CallMergeSuggestedTerms(t, s, d, m)

MergeAcquireStep == \E t \in Threads : MergeAcquire(t)

MergeBodyStep == \E t \in Threads : MergeBody(t)

PrescanCallStep ==
    \E t \in Threads, s \in Series, d \in PrescanDicts : CallMergePrescanTerms(t, s, d)

PrescanAcquireStep == \E t \in Threads : PrescanAcquire(t)

PrescanBodyStep == \E t \in Threads : PrescanBody(t)

SaveCallStep == \E t \in Threads, s \in Series, d \in SaveDocs : CallSaveToDisk(t, s, d)

SaveAcquireStep == \E t \in Threads : SaveAcquire(t)

SaveWriteStep == \E t \in Threads : SaveWrite(t)

SaveOSErrorStep == \E t \in Threads : SaveOSError(t)

FetchNetRefusedStep == \E t \in Threads : FetchNetRefused(t)

FetchCallStep == \E t \in Threads, s \in Series : CallFetch(t, s)

FetchNetStep == \E t \in Threads, r \in NetResults : FetchNet(t, r)

TranslatorLoadStep == \E t \in Threads, s \in Series : CallTranslatorLoad(t, s)

ClearCacheStep == \E t \in Threads, s \in Series : CallClearCache(t, s)

GlossaryNext ==
    \/ MergeCallStep
    \/ MergeAcquireStep
    \/ MergeBodyStep
    \/ PrescanCallStep
    \/ PrescanAcquireStep
    \/ PrescanBodyStep
    \/ SaveCallStep
    \/ SaveAcquireStep
    \/ SaveWriteStep
    \/ SaveOSErrorStep
    \/ FetchCallStep
    \/ FetchNetStep
    \/ FetchNetRefusedStep
    \/ TranslatorLoadStep
    \/ ClearCacheStep
    \/ GlossaryTick

----------------------------------------------------------------------------
(* Line classifier (modules/line_classifier.py)                            *)
(*                                                                         *)
(* A character outside ASCII is written as the name of its code point:     *)
(* "U+266A" is the eighth note.                                            *)

\* the LineType values
DIALOGUE == "dialogue"
SOUND_EFFECT == "sound_effect"
MUSIC_LYRICS == "music_lyrics"
TECHNICAL_TAG == "technical_tag"
UNTRANSLATABLE == "untranslatable"

AsciiLower == {"a", "b", "c", "d", "e", "f", "g", "h", "i", "j", "k", "l", "m",
               "n", "o", "p", "q", "r", "s", "t", "u", "v", "w", "x", "y", "z"}

AsciiUpper == {"A", "B", "C", "D", "E", "F", "G", "H", "I", "J", "K", "L", "M",
               "N", "O", "P", "Q", "R", "S", "T", "U", "V", "W", "X", "Y", "Z"}

\* the letters outside ASCII that the translations of sound effects use
AccentedLower == {"U+00E1", "U+00E3", "U+00E7", "U+00EA", "U+00F5", "U+00FA"}

Digits == {"0", "1", "2", "3", "4", "5", "6", "7", "8", "9"}

\* the characters of the class [♪♫🎵🎶]
MusicNotes == {"U+266A", "U+266B", "U+1F3B5", "U+1F3B6"}

\* str.isalpha() of one character
IsAlpha(c) == c \in AsciiLower \cup AsciiUpper \cup AccentedLower

\* \w of one character
IsWordChar(c) == IsAlpha(c) \/ c \in Digits \/ c = "_"

\* str.strip(chars)
RECURSIVE LStripChars(_, _)
LStripChars(s, chars) ==
    IF s = <<>> THEN <<>>
    ELSE IF Head(s) \in chars THEN LStripChars(Tail(s), chars) ELSE s

RECURSIVE RStripChars(_, _)
RStripChars(s, chars) ==
    IF s = <<>> THEN <<>>
    ELSE IF s[Len(s)] \in chars THEN RStripChars(SubSeq(s, 1, Len(s) - 1), chars)
    ELSE s

StripChars(s, chars) == RStripChars(LStripChars(s, chars), chars)

\* sub in s
Contains(sub, s) ==
    \E i \in 1..(Len(s) - Len(sub) + 1) : SubSeq(s, i, i + Len(sub) - 1) = sub

\* s.replace(old, new), old not empty
RECURSIVE Replace(_, _, _)
Replace(s, old, new) ==
    IF Len(s) < Len(old) THEN s
    ELSE IF SubSeq(s, 1, Len(old)) = old
         THEN new \o Replace(SubSeq(s, Len(old) + 1, Len(s)), old, new)
         ELSE <<Head(s)>> \o Replace(Tail(s), old, new)

\* _ONOMATOPOEIA
ONOMATOPOEIA == {
    <<"b", "a", "n", "g">>, <<"b", "e", "e", "p">>,
    <<"b", "o", "i", "n", "g">>, <<"b", "o", "o", "m">>,
    <<"b", "u", "z", "z">>, <<"c", "l", "a", "c", "k">>,
    <<"c", "l", "a", "n", "g">>, <<"c", "l", "i", "c", "k">>,
    <<"c", "r", "a", "c", "k">>, <<"c", "r", "a", "s", "h">>,
    <<"d", "i", "n", "g">>, <<"d", "o", "n", "g">>, <<"h", "i", "s", "s">>,
    <<"p", "o", "p">>, <<"p", "o", "w">>, <<"r", "u", "m", "b", "l", "e">>,
    <<"s", "c", "r", "e", "e", "c", "h">>, <<"s", "l", "a", "m">>,
    <<"s", "n", "a", "p">>, <<"s", "p", "l", "a", "s", "h">>,
    <<"s", "w", "o", "o", "s", "h">>, <<"t", "h", "u", "d">>,
    <<"t", "h", "u", "m", "p">>, <<"v", "r", "o", "o", "m">>,
    <<"w", "h", "a", "c", "k">>, <<"w", "h", "a", "m">>,
    <<"w", "h", "o", "o", "s", "h">>, <<"z", "a", "p">>,
    <<"z", "o", "o", "m">> }

\* _JAPANESE_KEEP
JAPANESE_KEEP == {
    <<"b", "a", "k", "a">>, <<"b", "a", "n", "k", "a", "i">>,
    <<"c", "h", "a", "k", "r", "a">>, <<"c", "h", "a", "n">>,
    <<"d", "o", "n", "o">>, <<"g", "a", "n", "b", "a", "t", "t", "e">>,
    <<"g", "o", "c", "h", "i", "s", "o", "u", "s", "a", "m", "a">>,
    <<"i", "t", "a", "d", "a", "k", "i", "m", "a", "s", "u">>,
    <<"j", "u", "t", "s", "u">>,
    <<"k", "a", "m", "e", "h", "a", "m", "e", "h", "a">>,
    <<"k", "a", "w", "a", "i", "i">>,
    <<"k", "o", "n", "b", "a", "n", "w", "a">>,
    <<"k", "o", "n", "n", "i", "c", "h", "i", "w", "a">>, <<"k", "u", "n">>,
    <<"m", "a", "t", "t", "e">>, <<"n", "a", "n", "i">>,
    <<"o", "h", "a", "y", "o">>, <<"o", "k", "a", "e", "r", "i">>,
    <<"r", "a", "s", "e", "n", "g", "a", "n">>, <<"s", "a", "m", "a">>,
    <<"s", "a", "n">>, <<"s", "a", "y", "o", "n", "a", "r", "a">>,
    <<"s", "e", "n", "p", "a", "i">>, <<"s", "e", "n", "s", "e", "i">>,
    <<"s", "h", "a", "r", "i", "n", "g", "a", "n">>,
    <<"s", "u", "g", "o", "i">>, <<"t", "a", "d", "a", "i", "m", "a">>,
    <<"y", "a", "t", "t", "a">> }

\* the alternatives of _RE_SOUND_WORDS, the optional s written out;
\* speaking [a-z]+ is SpeakingMatch below
SOUND_WORDS == {
    <<"s", "i", "g", "h">>, <<"s", "i", "g", "h", "s">>,
    <<"g", "a", "s", "p">>, <<"g", "a", "s", "p", "s">>,
    <<"g", "r", "o", "a", "n">>, <<"g", "r", "o", "a", "n", "s">>,
    <<"s", "c", "r", "e", "a", "m">>, <<"s", "c", "r", "e", "a", "m", "s">>,
    <<"l", "a", "u", "g", "h">>, <<"l", "a", "u", "g", "h", "s">>,
    <<"c", "o", "u", "g", "h">>, <<"c", "o", "u", "g", "h", "s">>,
    <<"s", "o", "b">>, <<"s", "o", "b", "s">>, <<"s", "n", "i", "f", "f">>,
    <<"s", "n", "i", "f", "f", "s">>, <<"c", "h", "u", "c", "k", "l", "e">>,
    <<"c", "h", "u", "c", "k", "l", "e", "s">>,
    <<"g", "i", "g", "g", "l", "e">>, <<"g", "i", "g", "g", "l", "e", "s">>,
    <<"w", "h", "i", "s", "p", "e", "r">>,
    <<"w", "h", "i", "s", "p", "e", "r", "s">>, <<"s", "h", "o", "u", "t">>,
    <<"s", "h", "o", "u", "t", "s">>, <<"y", "e", "l", "l">>,
    <<"y", "e", "l", "l", "s">>, <<"c", "r", "i", "e">>,
    <<"c", "r", "i", "e", "s">>, <<"m", "o", "a", "n">>,
    <<"m", "o", "a", "n", "s">>, <<"g", "r", "u", "n", "t">>,
    <<"g", "r", "u", "n", "t", "s">>, <<"s", "n", "o", "r", "e">>,
    <<"s", "n", "o", "r", "e", "s">>, <<"g", "r", "o", "w", "l">>,
    <<"g", "r", "o", "w", "l", "s">>, <<"h", "u", "m">>,
    <<"h", "u", "m", "s">>, <<"w", "h", "i", "s", "t", "l", "e">>,
    <<"w", "h", "i", "s", "t", "l", "e", "s">>, <<"c", "l", "a", "p">>,
    <<"c", "l", "a", "p", "s">>, <<"k", "n", "o", "c", "k">>,
    <<"k", "n", "o", "c", "k", "s">>,
    <<"f", "o", "o", "t", "s", "t", "e", "p", "s">>,
    <<"g", "u", "n", "s", "h", "o", "t">>,
    <<"g", "u", "n", "s", "h", "o", "t", "s">>,
    <<"e", "x", "p", "l", "o", "s", "i", "o", "n">>,
    <<"e", "x", "p", "l", "o", "s", "i", "o", "n", "s">>,
    <<"t", "h", "u", "n", "d", "e", "r">>, <<"w", "i", "n", "d">>,
    <<"r", "a", "i", "n">>, <<"d", "o", "o", "r">>,
    <<"p", "h", "o", "n", "e">>,
    <<"m", "u", "s", "i", "c", " ", "p", "l", "a", "y", "i", "n", "g">>,
    <<"i", "n", "d", "i", "s", "t", "i", "n", "c", "t", " ", "c", "h", "a", "t", "t", "e", "r">>,
    <<"c", "r", "o", "w", "d", " ", "c", "h", "e", "e", "r", "i", "n", "g">>,
    <<"a", "l", "a", "r", "m">>, <<"s", "i", "r", "e", "n">>,
    <<"b", "r", "e", "a", "t", "h", "i", "n", "g">>,
    <<"p", "a", "n", "t", "i", "n", "g">>,
    <<"s", "t", "a", "m", "m", "e", "r", "i", "n", "g">>,
    <<"s", "t", "u", "t", "t", "e", "r", "i", "n", "g">>,
    <<"r", "i", "n", "g", "i", "n", "g">>,
    <<"b", "e", "e", "p", "i", "n", "g">>,
    <<"b", "u", "z", "z", "i", "n", "g">>,
    <<"t", "i", "c", "k", "i", "n", "g">>,
    <<"c", "l", "i", "c", "k", "i", "n", "g">>,
    <<"c", "r", "e", "a", "k", "i", "n", "g">>,
    <<"a", "p", "p", "l", "a", "u", "s", "e">>,
    <<"l", "a", "u", "g", "h", "t", "e", "r">>,
    <<"s", "i", "l", "e", "n", "c", "e">>, <<"s", "t", "a", "t", "i", "c">>,
    <<"t", "a", "l", "k", "i", "n", "g">>,
    <<"s", "i", "n", "g", "i", "n", "g">>, <<"c", "r", "y", "i", "n", "g">>,
    <<"s", "o", "b", "b", "i", "n", "g">>,
    <<"w", "a", "i", "l", "i", "n", "g">>, <<"i", "n", "h", "a", "l", "e">>,
    <<"i", "n", "h", "a", "l", "e", "s">>, <<"e", "x", "h", "a", "l", "e">>,
    <<"e", "x", "h", "a", "l", "e", "s">> }

\* LineClassifier.SOUND_EFFECT_TRANSLATIONS, in insertion order
SOUND_EFFECT_TRANSLATIONS == <<
    <<<<"s", "i", "g", "h", "s">>, <<"s", "u", "s", "p", "i", "r", "a">>>>,
    <<<<"s", "i", "g", "h">>, <<"s", "u", "s", "p", "i", "r", "o">>>>,
    <<<<"g", "a", "s", "p", "s">>, <<"o", "f", "e", "g", "a">>>>,
    <<<<"g", "a", "s", "p">>, <<"o", "f", "e", "g", "o">>>>,
    <<<<"g", "r", "o", "a", "n", "s">>, <<"g", "e", "m", "e">>>>,
    <<<<"g", "r", "o", "a", "n">>, <<"g", "e", "m", "i", "d", "o">>>>,
    <<<<"s", "c", "r", "e", "a", "m", "s">>, <<"g", "r", "i", "t", "a">>>>,
    <<<<"s", "c", "r", "e", "a", "m">>, <<"g", "r", "i", "t", "o">>>>,
    <<<<"l", "a", "u", "g", "h", "s">>, <<"r", "i">>>>,
    <<<<"l", "a", "u", "g", "h">>, <<"r", "i", "s", "a", "d", "a">>>>,
    <<<<"l", "a", "u", "g", "h", "i", "n", "g">>, <<"r", "i", "n", "d", "o">>>>,
    <<<<"l", "a", "u", "g", "h", "t", "e", "r">>, <<"r", "i", "s", "a", "d", "a", "s">>>>,
    <<<<"c", "o", "u", "g", "h", "s">>, <<"t", "o", "s", "s", "e">>>>,
    <<<<"c", "o", "u", "g", "h">>, <<"t", "o", "s", "s", "e">>>>,
    <<<<"s", "o", "b", "s">>, <<"s", "o", "l", "u", "U+00E7", "a">>>>,
    <<<<"s", "o", "b">>, <<"s", "o", "l", "u", "U+00E7", "o">>>>,
    <<<<"s", "o", "b", "b", "i", "n", "g">>, <<"s", "o", "l", "u", "U+00E7", "a", "n", "d", "o">>>>,
    <<<<"s", "n", "i", "f", "f", "s">>, <<"f", "u", "n", "g", "a">>>>,
    <<<<"s", "n", "i", "f", "f">>, <<"f", "u", "n", "g", "a", "d", "a">>>>,
    <<<<"c", "h", "u", "c", "k", "l", "e", "s">>, <<"d", "U+00E1", " ", "r", "i", "s", "a", "d", "a">>>>,
    <<<<"c", "h", "u", "c", "k", "l", "e">>, <<"r", "i", "s", "a", "d", "i", "n", "h", "a">>>>,
    <<<<"g", "i", "g", "g", "l", "e", "s">>, <<"d", "U+00E1", " ", "r", "i", "s", "a", "d", "i", "n", "h", "a">>>>,
    <<<<"g", "i", "g", "g", "l", "e">>, <<"r", "i", "s", "a", "d", "i", "n", "h", "a">>>>,
    <<<<"w", "h", "i", "s", "p", "e", "r", "s">>, <<"s", "u", "s", "s", "u", "r", "r", "a">>>>,
    <<<<"w", "h", "i", "s", "p", "e", "r">>, <<"s", "u", "s", "s", "u", "r", "r", "o">>>>,
    <<<<"w", "h", "i", "s", "p", "e", "r", "i", "n", "g">>, <<"s", "u", "s", "s", "u", "r", "r", "a", "n", "d", "o">>>>,
    <<<<"s", "h", "o", "u", "t", "s">>, <<"g", "r", "i", "t", "a">>>>,
    <<<<"s", "h", "o", "u", "t">>, <<"g", "r", "i", "t", "o">>>>,
    <<<<"s", "h", "o", "u", "t", "i", "n", "g">>, <<"g", "r", "i", "t", "a", "n", "d", "o">>>>,
    <<<<"y", "e", "l", "l", "s">>, <<"b", "e", "r", "r", "a">>>>,
    <<<<"y", "e", "l", "l">>, <<"b", "e", "r", "r", "o">>>>,
    <<<<"y", "e", "l", "l", "i", "n", "g">>, <<"b", "e", "r", "r", "a", "n", "d", "o">>>>,
    <<<<"c", "r", "i", "e", "s">>, <<"c", "h", "o", "r", "a">>>>,
    <<<<"c", "r", "y">>, <<"c", "h", "o", "r", "o">>>>,
    <<<<"c", "r", "y", "i", "n", "g">>, <<"c", "h", "o", "r", "a", "n", "d", "o">>>>,
    <<<<"m", "o", "a", "n", "s">>, <<"g", "e", "m", "e">>>>,
    <<<<"m", "o", "a", "n">>, <<"g", "e", "m", "i", "d", "o">>>>,
    <<<<"g", "r", "u", "n", "t", "s">>, <<"r", "o", "s", "n", "a">>>>,
    <<<<"g", "r", "u", "n", "t">>, <<"r", "o", "s", "n", "a", "d", "o">>>>,
    <<<<"g", "r", "o", "w", "l", "s">>, <<"r", "o", "s", "n", "a">>>>,
    <<<<"g", "r", "o", "w", "l">>, <<"r", "o", "s", "n", "a", "d", "o">>>>,
    <<<<"h", "u", "m", "s">>, <<"c", "a", "n", "t", "a", "r", "o", "l", "a">>>>,
    <<<<"h", "u", "m">>, <<"c", "a", "n", "t", "a", "r", "o", "l", "a", "r">>>>,
    <<<<"h", "u", "m", "m", "i", "n", "g">>, <<"c", "a", "n", "t", "a", "r", "o", "l", "a", "n", "d", "o">>>>,
    <<<<"w", "h", "i", "s", "t", "l", "e", "s">>, <<"a", "s", "s", "o", "b", "i", "a">>>>,
    <<<<"w", "h", "i", "s", "t", "l", "e">>, <<"a", "s", "s", "o", "b", "i", "o">>>>,
    <<<<"c", "l", "a", "p", "s">>, <<"a", "p", "l", "a", "u", "d", "e">>>>,
    <<<<"c", "l", "a", "p">>, <<"a", "p", "l", "a", "u", "s", "o">>>>,
    <<<<"k", "n", "o", "c", "k", "s">>, <<"b", "a", "t", "e">>>>,
    <<<<"k", "n", "o", "c", "k">>, <<"b", "a", "t", "i", "d", "a">>>>,
    <<<<"k", "n", "o", "c", "k", "i", "n", "g">>, <<"b", "a", "t", "e", "n", "d", "o", " ", "n", "a", " ", "p", "o", "r", "t", "a">>>>,
    <<<<"f", "o", "o", "t", "s", "t", "e", "p", "s">>, <<"p", "a", "s", "s", "o", "s">>>>,
    <<<<"g", "u", "n", "s", "h", "o", "t">>, <<"t", "i", "r", "o">>>>,
    <<<<"g", "u", "n", "s", "h", "o", "t", "s">>, <<"t", "i", "r", "o", "s">>>>,
    <<<<"e", "x", "p", "l", "o", "s", "i", "o", "n">>, <<"e", "x", "p", "l", "o", "s", "U+00E3", "o">>>>,
    <<<<"e", "x", "p", "l", "o", "s", "i", "o", "n", "s">>, <<"e", "x", "p", "l", "o", "s", "U+00F5", "e", "s">>>>,
    <<<<"t", "h", "u", "n", "d", "e", "r">>, <<"t", "r", "o", "v", "U+00E3", "o">>>>,
    <<<<"w", "i", "n", "d">>, <<"v", "e", "n", "t", "o">>>>,
    <<<<"r", "a", "i", "n">>, <<"c", "h", "u", "v", "a">>>>,
    <<<<"d", "o", "o", "r">>, <<"p", "o", "r", "t", "a">>>>,
    <<<<"p", "h", "o", "n", "e">>, <<"t", "e", "l", "e", "f", "o", "n", "e">>>>,
    <<<<"m", "u", "s", "i", "c", " ", "p", "l", "a", "y", "i", "n", "g">>, <<"m", "U+00FA", "s", "i", "c", "a", " ", "t", "o", "c", "a", "n", "d", "o">>>>,
    <<<<"i", "n", "d", "i", "s", "t", "i", "n", "c", "t", " ", "c", "h", "a", "t", "t", "e", "r">>, <<"c", "o", "n", "v", "e", "r", "s", "a", " ", "i", "n", "d", "i", "s", "t", "i", "n", "t", "a">>>>,
    <<<<"c", "r", "o", "w", "d", " ", "c", "h", "e", "e", "r", "i", "n", "g">>, <<"m", "u", "l", "t", "i", "d", "U+00E3", "o", " ", "c", "o", "m", "e", "m", "o", "r", "a", "n", "d", "o">>>>,
    <<<<"a", "l", "a", "r", "m">>, <<"a", "l", "a", "r", "m", "e">>>>,
    <<<<"s", "i", "r", "e", "n">>, <<"s", "i", "r", "e", "n", "e">>>>,
    <<<<"b", "r", "e", "a", "t", "h", "i", "n", "g">>, <<"r", "e", "s", "p", "i", "r", "a", "n", "d", "o">>>>,
    <<<<"p", "a", "n", "t", "i", "n", "g">>, <<"o", "f", "e", "g", "a", "n", "d", "o">>>>,
    <<<<"s", "t", "a", "m", "m", "e", "r", "i", "n", "g">>, <<"g", "a", "g", "u", "e", "j", "a", "n", "d", "o">>>>,
    <<<<"s", "t", "u", "t", "t", "e", "r", "i", "n", "g">>, <<"g", "a", "g", "u", "e", "j", "a", "n", "d", "o">>>>,
    <<<<"r", "i", "n", "g", "i", "n", "g">>, <<"t", "o", "c", "a", "n", "d", "o">>>>,
    <<<<"b", "e", "e", "p", "i", "n", "g">>, <<"b", "i", "p", "a", "n", "d", "o">>>>,
    <<<<"b", "u", "z", "z", "i", "n", "g">>, <<"z", "u", "m", "b", "i", "n", "d", "o">>>>,
    <<<<"t", "i", "c", "k", "i", "n", "g">>, <<"t", "i", "q", "u", "e", "t", "a", "q", "u", "e", "a", "n", "d", "o">>>>,
    <<<<"c", "l", "i", "c", "k", "i", "n", "g">>, <<"c", "l", "i", "c", "a", "n", "d", "o">>>>,
    <<<<"c", "r", "e", "a", "k", "i", "n", "g">>, <<"r", "a", "n", "g", "e", "n", "d", "o">>>>,
    <<<<"a", "p", "p", "l", "a", "u", "s", "e">>, <<"a", "p", "l", "a", "u", "s", "o", "s">>>>,
    <<<<"s", "i", "l", "e", "n", "c", "e">>, <<"s", "i", "l", "U+00EA", "n", "c", "i", "o">>>>,
    <<<<"s", "t", "a", "t", "i", "c">>, <<"e", "s", "t", "U+00E1", "t", "i", "c", "a">>>>,
    <<<<"s", "i", "n", "g", "i", "n", "g">>, <<"c", "a", "n", "t", "a", "n", "d", "o">>>>,
    <<<<"t", "a", "l", "k", "i", "n", "g">>, <<"f", "a", "l", "a", "n", "d", "o">>>>,
    <<<<"w", "a", "i", "l", "i", "n", "g">>, <<"l", "a", "m", "e", "n", "t", "a", "n", "d", "o">>>>,
    <<<<"i", "n", "h", "a", "l", "e", "s">>, <<"i", "n", "s", "p", "i", "r", "a">>>>,
    <<<<"i", "n", "h", "a", "l", "e">>, <<"i", "n", "s", "p", "i", "r", "a", "U+00E7", "U+00E3", "o">>>>,
    <<<<"e", "x", "h", "a", "l", "e", "s">>, <<"e", "x", "p", "i", "r", "a">>>>,
    <<<<"e", "x", "h", "a", "l", "e">>, <<"e", "x", "p", "i", "r", "a", "U+00E7", "U+00E3", "o">>>>,
    <<<<"s", "n", "o", "r", "i", "n", "g">>, <<"r", "o", "n", "c", "a", "n", "d", "o">>>>,
    <<<<"s", "n", "o", "r", "e", "s">>, <<"r", "o", "n", "c", "a">>>>,
    <<<<"s", "c", "r", "e", "a", "m", "i", "n", "g">>, <<"g", "r", "i", "t", "a", "n", "d", "o">>>>,
    <<<<"g", "a", "s", "p", "i", "n", "g">>, <<"o", "f", "e", "g", "a", "n", "d", "o">>>>,
    <<<<"g", "r", "o", "a", "n", "i", "n", "g">>, <<"g", "e", "m", "e", "n", "d", "o">>>>,
    <<<<"c", "o", "u", "g", "h", "i", "n", "g">>, <<"t", "o", "s", "s", "i", "n", "d", "o">>>>,
    <<<<"s", "n", "i", "f", "f", "i", "n", "g">>, <<"f", "u", "n", "g", "a", "n", "d", "o">>>> >>

\* _RE_ASS_FULL_TAG.match(s): ^\s*\{[^}]+\}\s*$
ReAssFullTag(s) ==
    LET u == Strip(s)
    IN  /\ Len(u) >= 3
        /\ u[1] = "{"
        /\ u[Len(u)] = "}"
        /\ \A i \in 2..(Len(u) - 1) : u[i] # "}"

\* _RE_ONLY_PUNCTUATION.match(s): ^[\s\W]+$
ReOnlyPunctuation(s) ==
    /\ s # <<>>
    /\ \A i \in 1..Len(s) : s[i] \in Whitespace \/ ~IsWordChar(s[i])

\* _RE_MUSIC.match(s): ^\s*[♪♫🎵🎶]+.*[♪♫🎵🎶]+\s*$ with DOTALL
ReMusic(s) ==
    LET u == Strip(s)
    IN  /\ Len(u) >= 2
        /\ u[1] \in MusicNotes
        /\ u[Len(u)] \in MusicNotes

\* _RE_SOUND_BRACKET.match(s): ^\s*[\[\(]([^\]\)]+)[\]\)]\s*$
ReSoundBracket(s) ==
    LET u == Strip(s)
    IN  /\ Len(u) >= 3
        /\ u[1] \in {"[", "("}
        /\ u[Len(u)] \in {"]", ")"}
        /\ \A i \in 2..(Len(u) - 1) : u[i] \notin {"]", ")"}

\* _RE_SOUND_ASTERISK.match(s): ^\s*\*([^*]+)\*\s*$
ReSoundAsterisk(s) ==
    LET u == Strip(s)
    IN  /\ Len(u) >= 3
        /\ u[1] = "*"
        /\ u[Len(u)] = "*"
        /\ \A i \in 2..(Len(u) - 1) : u[i] # "*"

\* group(1) of _RE_SOUND_BRACKET and of _RE_SOUND_ASTERISK
Group1(s) == LET u == Strip(s) IN SubSeq(u, 2, Len(u) - 1)

\* the alternative speaking [a-z]+ of _RE_SOUND_WORDS, on a lowered string
SpeakingMatch(w) ==
    LET speaking == <<"s", "p", "e", "a", "k", "i", "n", "g", " ">>
    IN  /\ Len(w) > Len(speaking)
        /\ SubSeq(w, 1, Len(speaking)) = speaking
        /\ \A i \in (Len(speaking) + 1)..Len(w) : w[i] \in AsciiLower

\* _RE_SOUND_WORDS.match(s): ^\s*[\[\(]?\s*\b(...)\s*[\]\)]?\s*$ with IGNORECASE
ReSoundWords(s) ==
    LET a == LStrip(s)
        b == IF a # <<>> /\ Head(a) \in {"[", "("} THEN Tail(a) ELSE a
        c == RStrip(LStrip(b))
        d == IF c # <<>> /\ c[Len(c)] \in {"]", ")"}
             THEN SubSeq(c, 1, Len(c) - 1) ELSE c
        w == Lower(RStrip(d))
    IN  w \in SOUND_WORDS \/ SpeakingMatch(w)

\* LineClassifier._translate_sound_effect(effect_text)
TranslateSoundEffect(effect_text) ==
    LET effect_lower == Strip(Lower(effect_text))
        n == Len(SOUND_EFFECT_TRANSLATIONS)
        direct == {i \in 1..n : SOUND_EFFECT_TRANSLATIONS[i][1] = effect_lower}
        partial == {i \in 1..n :
                       Contains(SOUND_EFFECT_TRANSLATIONS[i][1], effect_lower)}
    IN  IF direct # {}
        THEN SOUND_EFFECT_TRANSLATIONS[CHOOSE i \in direct : TRUE][2]
        ELSE IF partial # {}
        THEN LET i == CHOOSE j \in partial : \A k \in partial : j <= k
             IN  Replace(effect_lower, SOUND_EFFECT_TRANSLATIONS[i][1],
                         SOUND_EFFECT_TRANSLATIONS[i][2])
        ELSE effect_text

\* the result of step 3 of classify: a music line keeps its stripped text
MusicLyrics(stripped) == [type |-> MUSIC_LYRICS, text |-> stripped]

\* step 4 of classify, for a line that _RE_SOUND_BRACKET matches: the result,
\* or <<>> when the line falls through to the steps below
ClassifyBracket(stripped) ==
    LET inner == Lower(Strip(Group1(stripped)))
        translated == TranslateSoundEffect(inner)
        open_char == <<stripped[1]>>
        close_char == <<stripped[Len(stripped)]>>
    IN  IF translated # inner \/ ReSoundWords(stripped)
        THEN <<[type |-> SOUND_EFFECT,
                text |-> open_char \o translated \o close_char]>>
        ELSE <<>>

\* steps 5 to 10 of classify
ClassifyUnbracketed(text, stripped) ==
    LET term == Strip(RStripChars(Lower(stripped), {"!", "."}))
        alpha_count == Cardinality({i \in 1..Len(stripped) : IsAlpha(stripped[i])})
    IN  IF ReSoundAsterisk(stripped)
        THEN [type |-> SOUND_EFFECT,
              text |-> <<"*">> \o TranslateSoundEffect(Lower(Strip(Group1(stripped))))
                           \o <<"*">>]
        ELSE IF ReSoundWords(stripped)
        THEN [type |-> SOUND_EFFECT,
              text |-> TranslateSoundEffect(
                           Lower(StripChars(stripped, {"[", "]", "(", ")", " "})))]
        ELSE IF term \in ONOMATOPOEIA THEN [type |-> UNTRANSLATABLE, text |-> text]
        ELSE IF term \in JAPANESE_KEEP THEN [type |-> UNTRANSLATABLE, text |-> text]
        ELSE IF alpha_count < 2 THEN [type |-> UNTRANSLATABLE, text |-> text]
        ELSE [type |-> DIALOGUE, text |-> stripped]

\* LineClassifier.classify(text)
Classify(text) ==
    LET stripped == Strip(text)
    IN  IF stripped = <<>> THEN [type |-> UNTRANSLATABLE, text |-> text]
        ELSE IF ReAssFullTag(stripped) THEN [type |-> TECHNICAL_TAG, text |-> text]
        ELSE IF ReOnlyPunctuation(stripped)
        THEN [type |-> UNTRANSLATABLE, text |-> text]
        ELSE IF ReMusic(stripped)
                \/ (stripped[1] = "U+266A" /\ stripped[Len(stripped)] = "U+266A")
        THEN MusicLyrics(stripped)
        ELSE IF ReSoundBracket(stripped) /\ ClassifyBracket(stripped) # <<>>
        THEN ClassifyBracket(stripped)[1]
        ELSE ClassifyUnbracketed(text, stripped)

\* the lines handed to classify: one for each branch, bare and padded
LineCores == {
    <<>>,
    <<"{", "\\", "a", "n", "8", "}">>,
    <<".", ".", ".">>,
    <<"U+266A">>,
    <<"U+266A", " ", "l", "a", " ", "U+266A">>,
    <<"U+266B", "l", "a", "U+266B">>,
    <<"U+266A", " ", "l", "a">>,
    <<"(", "s", "i", "g", "h", "s", ")">>,
    <<"[", "d", "o", "o", "r", " ", "c", "r", "e", "a", "k", "i", "n", "g", "]">>,
    <<"[", "T", "h", "u", "n", "d", "e", "r", "]">>,
    <<"(", "s", "p", "e", "a", "k", "i", "n", "g", " ", "j", "a", "p", "a", "n", "e", "s", "e", ")">>,
    <<"(", "c", "r", "i", "e", ")">>,
    <<"(", "h", "e", "l", "l", "o", ")">>,
    <<"[", "a", "]">>,
    <<"[", "c", "r", "i", "e", "s">>,
    <<"*", "s", "i", "g", "h", "s", "*">>,
    <<"*", "H", "i", "*">>,
    <<"s", "i", "g", "h", "s">>,
    <<"B", "a", "n", "g", "!">>,
    <<"S", "e", "n", "p", "a", "i", ".">>,
    <<"a">>,
    <<"H", "i", " ", "y", "o", "u">>,
    <<"{", "x", "}", "y">> }

LinePads == {<<>>, <<" ">>, <<"\t">>}

Lines == {l \o core \o r : l \in LinePads, r \in LinePads, core \in LineCores}

\* no line has been classified
ClassifierIdle == line = <<>> /\ classified = <<>>

ClassifierInit == line \in Lines /\ classified = <<>>

\* classify(line)
ClassifyLine ==
    /\ classified = <<>>
    /\ classified' = <<Classify(line)>>
    /\ UNCHANGED <<line, cacheVars, now, translations, glossaryVars,
                   translatorVars, backendVars, sessionVars>>

\* classify(processed text of the result before)
ClassifyAgain ==
    /\ Len(classified) = 1
    /\ classified' = Append(classified, Classify(classified[1].text))
    /\ UNCHANGED <<line, cacheVars, now, translations, glossaryVars,
                   translatorVars, backendVars, sessionVars>>

ClassifierNext == ClassifyLine \/ ClassifyAgain

----------------------------------------------------------------------------
(* Translator (modules/translator.py) and orchestrator                     *)
(* (modules/processor.py): text handling                                   *)
(*                                                                         *)
(* The backend is the local LLM server (api_type 'Ollama'), the series id  *)
(* of the file is unknown (no series glossary; the built-in glossary holds *)
(* no word of the lines and replies of the model), and                     *)
(* modules/translation_optimizer is not part of the repository, so that    *)
(* Translator.optimizer and Translator.batcher are None. A request that    *)
(* times out counts once, with the retry it is given.                      *)

\* re.sub(open [^close]* close, '', s)
RECURSIVE RemoveGroups(_, _, _)
RemoveGroups(s, open, close) ==
    IF s = <<>> THEN <<>>
    ELSE IF Head(s) = open /\ \E j \in 2..Len(s) : s[j] = close
         THEN LET j == CHOOSE k \in 2..Len(s) :
                           s[k] = close /\ \A m \in 2..(k - 1) : s[m] # close
              IN  RemoveGroups(SubSeq(s, j + 1, Len(s)), open, close)
         ELSE <<Head(s)>> \o RemoveGroups(Tail(s), open, close)

\* ''.join(re.findall(r'\{[^}]*\}', s))
RECURSIVE FindTags(_)
FindTags(s) ==
    IF s = <<>> THEN <<>>
    ELSE IF Head(s) = "{" /\ \E j \in 2..Len(s) : s[j] = "}"
         THEN LET j == CHOOSE k \in 2..Len(s) :
                           s[k] = "}" /\ \A m \in 2..(k - 1) : s[m] # "}"
              IN  SubSeq(s, 1, j) \o FindTags(SubSeq(s, j + 1, Len(s)))
         ELSE FindTags(Tail(s))

\* Translator.extract_text_from_ass; html.unescape leaves the lines of the
\* model as they are, none holds an entity
ExtractTextFromAss(ass_line) == Strip(RemoveGroups(ass_line, "{", "}"))

\* Translator.clean_subtitle_text
CleanSubtitleText(text) ==
    Strip(RemoveGroups(RemoveGroups(text, "<", ">"), "{", "}"))

\* Translator.replace_text_in_ass
ReplaceTextInAss(original_formatted, new_text) ==
    IF FindTags(original_formatted) = <<>> THEN new_text
    ELSE FindTags(original_formatted) \o new_text

\* Translator.is_translatable_text; langdetect takes the lines of the model
\* for the source language
IsTranslatableText(text) ==
    LET t == Strip(text)
    IN  /\ Len(t) >= 2
        /\ ~(\A i \in 1..Len(t) : t[i] \in Digits)
        /\ Cardinality({i \in 1..Len(t) : IsAlpha(t[i])}) >= 2

\* re.sub(r'\.{4,}', '...', s)
RECURSIVE CollapseDots(_)
CollapseDots(s) ==
    IF s = <<>> THEN <<>>
    ELSE IF Head(s) = "."
         THEN LET run == CHOOSE k \in 1..Len(s) :
                             /\ \A m \in 1..k : s[m] = "."
                             /\ (k = Len(s) \/ s[k + 1] # ".")
                  rest == CollapseDots(SubSeq(s, run + 1, Len(s)))
              IN  IF run >= 4 THEN <<".", ".", ".">> \o rest
                  ELSE SubSeq(s, 1, run) \o rest
         ELSE <<Head(s)>> \o CollapseDots(Tail(s))

\* re.sub(r'\s{2,}', ' ', s)
RECURSIVE CollapseSpaces(_)
CollapseSpaces(s) ==
    IF s = <<>> THEN <<>>
    ELSE IF Len(s) >= 2 /\ s[1] \in Whitespace /\ s[2] \in Whitespace
         THEN <<" ">> \o CollapseSpaces(LStrip(s))
         ELSE <<Head(s)>> \o CollapseSpaces(Tail(s))

\* the run of letters _clean_ai_response takes for a corrupted reply
CorruptedTailLen == 15

\* re.search(r'[a-zA-Z]{15,}$', s)
CorruptedTail(s) ==
    /\ Len(s) >= CorruptedTailLen
    /\ \A i \in (Len(s) - CorruptedTailLen + 1)..Len(s) :
           s[i] \in AsciiLower \cup AsciiUpper

\* Translator._clean_ai_response: the rules that can act on the lines and the
\* replies of the model (strip, the 4+ dots, the wrapping quotes, the corrupted
\* tail, the runs of whitespace); the others look for prompt echoes, notes,
\* entities and CJK characters, which no line or reply of the model holds
CleanAiResponse(text) ==
    IF text = <<>> THEN text
    ELSE IF Strip(text) # <<>> /\ \A i \in 1..Len(Strip(text)) : Strip(text)[i] \in Digits
    THEN text
    ELSE LET dotted == CollapseDots(Strip(text))
             unquoted == IF Len(dotted) >= 2 /\ dotted[1] = "\""
                            /\ dotted[Len(dotted)] = "\""
                         THEN SubSeq(dotted, 2, Len(dotted) - 1) ELSE dotted
         IN  IF CorruptedTail(unquoted) THEN <<>>
             ELSE Strip(CollapseSpaces(unquoted))

\* Translator._is_translation_valid, the tests that can fail on the replies
\* of the model
IsTranslationValid(original, translated) ==
    /\ translated # <<>>
    /\ Strip(translated) # Strip(original)
    /\ ~(Len(Strip(translated)) * 10 < Len(Strip(original)))

\* SubtitleQualityValidator.validate_line_translation: is_valid; the lines of
\* the model hold no negation and no pronoun, the replies no artifact, so the
\* confidence stays at 0.7 or above and no self-consistency pass is made
ValidateLineTranslation(original, translated) ==
    /\ original # <<>>
    /\ translated # <<>>
    /\ Lower(Strip(original)) # Lower(Strip(translated))

\* lines, files and answers of the server in the model
LineHiYou == <<"H", "i", " ", "y", "o", "u">>
LineGoNow == <<"G", "o", " ", "n", "o", "w">>
LineRunOff == <<"R", "u", "n", " ", "o", "f", "f">>
LineStayPut == <<"S", "t", "a", "y", " ", "p", "u", "t">>
LineWaitDots == <<"W", "a", "i", "t", ".", ".", ".", ".", ".">>
LineCongratulations ==
    <<"C", "o", "n", "g", "r", "a", "t", "u", "l", "a", "t", "i", "o", "n", "s">>
\* Stay {\i1}put
LineStayTagged ==
    <<"S", "t", "a", "y", " ", "{", "\\", "i", "1", "}", "p", "u", "t">>
LineMusicLa == <<"U+266A", " ", "l", "a", " ", "U+266A">>
LineMusicNa == <<"U+266B", " ", "n", "a", " ", "U+266B">>

\* the cue texts of a subtitle file, in file order; the rest of the file
\* (numbers, timestamps, styles) is carried over untouched by the code
CuesPlain == <<LineHiYou, LineGoNow, LineRunOff, LineStayPut>>
CuesRepeated == <<LineHiYou, LineHiYou, LineGoNow>>
CuesHard == <<LineHiYou, LineWaitDots, LineCongratulations, LineStayTagged>>
CuesMusic == <<LineMusicLa, LineMusicNa, LineMusicLa, LineMusicNa>>

CueLists == {CuesPlain, CuesRepeated, CuesHard, CuesMusic}

\* srt_batch_size and ass_batch_size as Translator.__init__ accepts them:
\* line by line, the pair, the numbered batch of 4
Configs ==
    [fmt : {"srt"}, srt_batch_size : {0, 4}, ass_batch_size : {2},
     skip_existing : BOOLEAN]
    \cup [fmt : {"ass"}, srt_batch_size : {0}, ass_batch_size : {1, 2, 4},
          skip_existing : BOOLEAN]

\* what the model answers for a line: a rendering in the target language
Translate(text) ==
    CASE text = LineHiYou -> <<"O", "i", " ", "v", "o", "c", "e">>
      [] text = LineGoNow -> <<"V", "a", " ", "j", "a">>
      [] text = LineRunOff -> <<"F", "u", "j", "a">>
      [] text = LineStayPut -> <<"F", "i", "q", "u", "e">>
      [] text = LineWaitDots -> <<"E", "s", "p", "e", "r", "a">>
      [] text = LineCongratulations -> <<"P", "a", "r", "a", "b", "e", "n", "s">>
      [] OTHER -> <<"T", "r", " ">> \o text

\* a second rendering of the same line
TranslateAlt(text) == <<"S", "i", "m", " ">> \o Translate(text)

\* answers of the server to one request for one line
SingleOutcomes == {"ok", "timeout"}

\* answers of the server to one numbered batch: every line rendered; the
\* lines at even positions rendered the second way; the last line left out
\* of the reply; no answer in time
BatchOutcomes == {"ok", "varied", "partial", "timeout"}

\* the numbered reply to a batch, line by line: <<>> where the reply has no
\* line of that number
BatchReply(batch_texts, outcome) ==
    [i \in 1..Len(batch_texts) |->
        IF outcome = "partial" /\ i = Len(batch_texts) THEN <<>>
        ELSE IF outcome = "varied" /\ i % 2 = 0
             THEN <<TranslateAlt(batch_texts[i])>>
             ELSE <<Translate(batch_texts[i])>>]

\* Translator._ollama_translate_v2: the reply, or the text itself after the
\* second timeout
OllamaTranslateV2(text, outcome) ==
    IF outcome = "ok" /\ Strip(Translate(text)) # <<>>
    THEN Strip(Translate(text))
    ELSE text

\* Translator.translate_text past the stop test, with the class of the line,
\* the answer of the cache and the cleaned reply of the server at hand: the
\* text returned, the table afterwards, the requests made, the rise of
\* translation_stats['api_failures'], the inserts into the cache
TranslateTextWith(text, prev_line, next_line, answered, classified_as, cached, cleaned_result) ==
    IF classified_as.type \in {TECHNICAL_TAG, UNTRANSLATABLE, MUSIC_LYRICS}
    THEN [result |-> text, tbl |-> cached.before, calls |-> 0, answered |-> 0,
          api_failures |-> 0, inserts |-> 0]
    ELSE IF classified_as.type = SOUND_EFFECT
    THEN [result |-> classified_as.text, tbl |-> cached.before, calls |-> 0,
          answered |-> 0, api_failures |-> 0, inserts |-> 0]
    ELSE IF Truthy(cached.res) /\ Lower(Strip(cached.res)) # Lower(Strip(text))
    THEN [result |-> cached.res, tbl |-> cached.tbl, calls |-> 0,
          answered |-> 0, api_failures |-> 0, inserts |-> 0]
    ELSE IF /\ Strip(cleaned_result) # Strip(text)
            /\ ValidateLineTranslation(text, cleaned_result)
            /\ IsTranslationValid(text, cleaned_result)
    THEN [result |-> cleaned_result,
          tbl |-> IF SetRefused(text, cleaned_result) THEN cached.tbl
                  ELSE TcSetRows(cached.tbl, text, cleaned_result, SrcLang,
                                 TgtLang, ApiUsed, prev_line, next_line),
          calls |-> 1, answered |-> answered, api_failures |-> 0,
          inserts |-> IF SetRefused(text, cleaned_result) THEN 0 ELSE 1]
    ELSE [result |-> text, tbl |-> cached.tbl, calls |-> 1,
          answered |-> answered, api_failures |-> 1, inserts |-> 0]

\* TranslationCache.get as translate_text calls it, with the table before
CacheGet(tbl, text, prev_line, next_line) ==
    [before |-> tbl] @@ TcGetOutcome(tbl, text, SrcLang, TgtLang, prev_line,
                                     next_line)

\* Translator.translate_text(text, target_lang, context, prev_line, next_line)
\* on the table tbl of the cache; no line of the model is in the dictionary
\* of simple phrases
TranslateText(stop_processing, tbl, text, prev_line, next_line, outcome) ==
    IF stop_processing
    THEN [result |-> text, tbl |-> tbl, calls |-> 0, answered |-> 0,
          api_failures |-> 0, inserts |-> 0]
    ELSE TranslateTextWith(text, prev_line, next_line,
                           IF outcome = "ok" THEN 1 ELSE 0,
                           Classify(text),
                           CacheGet(tbl, text, prev_line, next_line),
                           CleanAiResponse(OllamaTranslateV2(text, outcome)))

\* Translator._parse_numbered_batch_response: ok is FALSE for None, a slot
\* of the list is <<>> for None
ParseNumberedBatchResponse(reply, expected_count) ==
    LET found == {i \in 1..expected_count : reply[i] # <<>>}
        missing_count == expected_count - Cardinality(found)
    IN  IF Cardinality(found) * 10 < expected_count * 6
        THEN [ok |-> FALSE, list |-> <<>>]
        ELSE IF missing_count * 10 > expected_count * 3
        THEN [ok |-> FALSE, list |-> <<>>]
        ELSE [ok |-> TRUE, list |-> [i \in 1..expected_count |-> reply[i]]]

\* Translator._translate_batch_with_context_ollama(batch_texts, ctx, lang):
\* ok is FALSE for the None it returns when the request or the parse fails
TranslateBatchWithContextOllama(stop_processing, batch_texts, outcome) ==
    LET parsed == ParseNumberedBatchResponse(BatchReply(batch_texts, outcome),
                                             Len(batch_texts))
    IN  IF stop_processing
        THEN [ok |-> TRUE, list |-> batch_texts, calls |-> 0, answered |-> 0]
        ELSE IF outcome = "timeout"
        THEN [ok |-> FALSE, list |-> <<>>, calls |-> 1, answered |-> 0]
        ELSE IF ~parsed.ok
        THEN [ok |-> FALSE, list |-> <<>>, calls |-> 1, answered |-> 1]
        ELSE [ok |-> TRUE,
              list |-> [i \in 1..Len(batch_texts) |->
                           IF parsed.list[i] = <<>> THEN batch_texts[i]
                           ELSE CleanAiResponse(parsed.list[i][1])],
              calls |-> 1, answered |-> 1]

\* the dedupe of translate_srt: unique_texts
RECURSIVE UniqueTexts(_)
UniqueTexts(texts) ==
    IF texts = <<>> THEN <<>>
    ELSE LET front == UniqueTexts(SubSeq(texts, 1, Len(texts) - 1))
             t == texts[Len(texts)]
         IN  IF \E i \in 1..Len(front) : front[i] = t THEN front
             ELSE Append(front, t)

\* the dedupe of translate_srt: duplicate_map, positions counted from 1
DuplicateMap(texts) ==
    [i \in 1..Len(texts) |->
        CHOOSE j \in 1..Len(UniqueTexts(texts)) : UniqueTexts(texts)[j] = texts[i]]

\* the text of a cue as translate_ass and translate_srt read it
CleanText(fmt, cue) ==
    IF fmt = "ass" THEN ExtractTextFromAss(cue) ELSE CleanSubtitleText(Strip(cue))

\* the cues translate_srt and translate_ass take up, among the first k:
\* position and clean text
RECURSIVE SubtitleLinesUpto(_, _, _)
SubtitleLinesUpto(fmt, cues, k) ==
    IF k = 0 THEN <<>>
    ELSE IF /\ Strip(CleanText(fmt, cues[k])) # <<>>
            /\ IsTranslatableText(CleanText(fmt, cues[k]))
         THEN Append(SubtitleLinesUpto(fmt, cues, k - 1),
                     [i |-> k, clean |-> CleanText(fmt, cues[k])])
         ELSE SubtitleLinesUpto(fmt, cues, k - 1)

SubtitleLines(fmt, cues) == SubtitleLinesUpto(fmt, cues, Len(cues))

\* TranslationCache.cleanup_bad_translations, which Translator.__init__ calls
CleanupBadRows(tbl) ==
    [h \in {x \in DOMAIN tbl :
               Lower(SqlTrim(tbl[x].original_text))
                   # Lower(SqlTrim(tbl[x].translated_text))}
        |-> tbl[h]]

----------------------------------------------------------------------------
(* FileProcessor.process_all and Translator.translate_subtitle on one file *)

\* process_all is run this many times on the directory
MaxRuns == 2

\* the translated file is looked for under a name that is never written
OutputFileExistsElsewhere(out) == FALSE

\* Path.exists() of the translated file
OutputFileExists(out) == out # <<>>

\* FileProcessor.process_all, the test before translate_subtitle
AlreadyTranslated(out, skip_existing) == OutputFileExists(out) /\ skip_existing

\* a Translator as __init__ leaves it
NewTranslator ==
    [exists |-> TRUE, stop_processing |-> FALSE,
     batch_translation_enabled |-> FALSE,
     batch_failure_count |-> 0, batch_success_count |-> 0,
     api_failures |-> 0, ollama_warmed |-> FALSE]

NoTranslator == [NewTranslator EXCEPT !.exists = FALSE]

\* no translate_subtitle call is open
NoJob ==
    [pc |-> "idle", lines |-> <<>>, subtitle_lines |-> <<>>, idx |-> 0,
     translated_in_file |-> EmptyMap, unique_texts |-> <<>>,
     duplicate_map |-> <<>>, translated_texts |-> <<>>, chunk_start |-> 0,
     tbo_texts |-> <<>>, tbo_out |-> <<>>, tbo_ret |-> "", result |-> ""]

\* what the run has asked of the server so far, and what happened to the file
NoTraffic ==
    [calls |-> 0, batch_calls |-> 0, batch_failed |-> 0, batch_ok |-> 0,
     answered |-> 0, warmups |-> 0, sent |-> <<>>, submitted |-> 0,
     inserted |-> <<>>, had_output |-> FALSE, skipped |-> FALSE,
     cancelled |-> FALSE, wrote |-> FALSE, failed |-> {}]

TranslatorIdle ==
    /\ subtitle_file = [fmt |-> "srt", cues |-> <<>>]
    /\ config = [srt_batch_size |-> 0, ass_batch_size |-> 2,
                 skip_existing |-> TRUE]
    /\ dir = [base |-> FALSE, output |-> <<>>]
    /\ proc = [run |-> MaxRuns, pc |-> "idle", stop_flag |-> FALSE]
    /\ tr = NoTranslator
    /\ job = NoJob
    /\ net = NoTraffic

TranslatorInit ==
    /\ \E c \in Configs, cues \in CueLists :
          /\ subtitle_file = [fmt |-> c.fmt, cues |-> cues]
          /\ config = [srt_batch_size |-> c.srt_batch_size,
                       ass_batch_size |-> c.ass_batch_size,
                       skip_existing |-> c.skip_existing]
    /\ dir = [base |-> TRUE, output |-> <<>>]
    /\ proc = [run |-> 0, pc |-> "idle", stop_flag |-> FALSE]
    /\ tr = NoTranslator
    /\ job = NoJob
    /\ net = NoTraffic

TrFrame ==
    UNCHANGED <<cacheVars, now, glossaryVars, classifierVars, subtitle_file,
                config, backendVars, sessionVars>>

\* cues are still to be taken up by the open translate_subtitle call
WorkLeft ==
    \/ job.pc \in {"ass", "ass_pair", "ass_single"}
          /\ job.idx < Len(job.subtitle_lines)
    \/ job.pc = "srt_batch" /\ job.chunk_start < Len(job.unique_texts)
    \/ job.pc = "tbo" /\ Len(job.tbo_out) < Len(job.tbo_texts)

\* FileProcessor.process_all up to the loop over the files: the Translator of
\* the run, the scan of the directory
ProcessAll ==
    /\ proc.pc = "idle"
    /\ proc.run < MaxRuns
    /\ tr' = NewTranslator
    /\ translations' = CleanupBadRows(translations)
    /\ net' = [NoTraffic EXCEPT !.had_output = (dir.output # <<>>)]
    /\ proc' = [proc EXCEPT !.run = @ + 1,
                            !.pc = IF dir.base THEN "file" ELSE "idle"]
    /\ UNCHANGED <<dir, job>>
    /\ TrFrame

\* FileProcessor.process_all, the loop body up to the call of
\* translate_subtitle
ProcessFile ==
    /\ proc.pc = "file"
    /\ IF proc.stop_flag
       THEN /\ proc' = [proc EXCEPT !.pc = "idle"]
            /\ UNCHANGED net
       ELSE IF AlreadyTranslated(dir.output, config.skip_existing)
       THEN /\ proc' = [proc EXCEPT !.pc = "idle"]
            /\ net' = [net EXCEPT !.skipped = TRUE]
       ELSE /\ proc' = [proc EXCEPT !.pc = "call"]
            /\ UNCHANGED net
    /\ UNCHANGED <<dir, tr, job, translations>>
    /\ TrFrame

\* Translator.translate_subtitle up to the loops of translate_srt and
\* translate_ass
TranslateSubtitle ==
    /\ proc.pc = "call"
    /\ job.pc = "idle"
    /\ IF OutputFileExists(dir.output)
       THEN /\ job' = [NoJob EXCEPT !.pc = "returned", !.result = "output"]
            /\ UNCHANGED <<tr, net>>
       ELSE \E model_available \in BOOLEAN :
            LET sl == SubtitleLines(subtitle_file.fmt, subtitle_file.cues)
                texts == [i \in 1..Len(sl) |-> sl[i].clean]
                started == [NoJob EXCEPT !.lines = subtitle_file.cues,
                                         !.subtitle_lines = sl]
                warm == model_available /\ ~tr.ollama_warmed
            IN  /\ tr' = [tr EXCEPT !.ollama_warmed = @ \/ model_available]
                /\ net' = [net EXCEPT !.warmups = IF warm THEN @ + 1 ELSE @]
                /\ job' =
                     IF ~model_available \/ sl = <<>>
                     THEN [started EXCEPT !.pc = "write"]
                     ELSE IF subtitle_file.fmt = "ass"
                     THEN [started EXCEPT !.pc = "ass"]
                     ELSE LET unique == UniqueTexts(texts)
                              srt == [started EXCEPT
                                         !.unique_texts = unique,
                                         !.duplicate_map = DuplicateMap(texts)]
                          IN  IF config.srt_batch_size >= 4
                                   /\ Len(unique) >= config.srt_batch_size
                              THEN [srt EXCEPT !.pc = "srt_batch"]
                              ELSE [srt EXCEPT !.pc = "tbo",
                                               !.tbo_texts = unique,
                                               !.tbo_ret = "srt_finish"]
    /\ UNCHANGED <<dir, proc, translations>>
    /\ TrFrame

\* lines[line_idx] = replace_text_in_ass(original_formatted, t) for cue k of
\* subtitle_lines
AssApply(lines, k, t) ==
    LET i == job.subtitle_lines[k].i
    IN  [lines EXCEPT ![i] = ReplaceTextInAss(subtitle_file.cues[i], t)]

\* translate_ass, the block that came back whole: the first j of its cues
\* cleaned, remembered in translated_in_file and put into their lines
RECURSIVE AssBlockApplied(_, _, _, _, _)
AssBlockApplied(lines, tif, block, batch_result, j) ==
    IF j = 0 THEN [lines |-> lines, tif |-> tif]
    ELSE [lines |-> AssApply(
                        AssBlockApplied(lines, tif, block, batch_result, j - 1).lines,
                        job.idx + j, CleanAiResponse(batch_result[j])),
          tif |-> Put(AssBlockApplied(lines, tif, block, batch_result, j - 1).tif,
                      block[j], CleanAiResponse(batch_result[j]))]

\* the request of a batch in the books of the run
BatchTraffic(batch_texts, r) ==
    [net EXCEPT !.calls = @ + r.calls,
                !.batch_calls = @ + r.calls,
                !.batch_failed = IF r.ok THEN @ ELSE @ + 1,
                !.batch_ok = IF r.ok THEN @ + 1 ELSE @,
                !.answered = @ + r.answered,
                !.sent = IF r.calls = 1 THEN Append(@, batch_texts) ELSE @,
                !.failed = IF r.calls = 1 /\ ~r.ok
                           THEN @ \cup {Len(net.sent) + 1} ELSE @]

\* the call of translate_text in the books of the run
TextTraffic(text, r) ==
    [net EXCEPT !.calls = @ + r.calls,
                !.answered = @ + r.answered,
                !.submitted = @ + r.calls,
                !.sent = IF r.calls = 1 THEN Append(@, <<text>>) ELSE @,
                !.inserted = IF r.inserts = 1 THEN Append(@, text) ELSE @]

\* the block of ass_batch_size cues from the cue at idx on, <<>> when fewer
\* cues are left or one of them was translated before in the file
AssBlock ==
    IF /\ config.ass_batch_size >= 4
       /\ job.idx + config.ass_batch_size <= Len(job.subtitle_lines)
       /\ \A j \in 1..config.ass_batch_size :
              job.subtitle_lines[job.idx + j].clean
                  \notin DOMAIN job.translated_in_file
    THEN [j \in 1..config.ass_batch_size |-> job.subtitle_lines[job.idx + j].clean]
    ELSE <<>>

\* translate_ass: the block of ass_batch_size cues, once batch_result is there
AssBlockDone(block, r, done) ==
    /\ net' = BatchTraffic(block, r)
    /\ job' = IF r.ok /\ Len(r.list) = config.ass_batch_size
              THEN [job EXCEPT !.lines = done.lines,
                               !.translated_in_file = done.tif,
                               !.idx = @ + config.ass_batch_size]
              ELSE [job EXCEPT !.pc = "ass_pair"]

\* translate_ass: the head of the loop, the cue translated before in the
\* file, the block of ass_batch_size cues
AssLoop ==
    /\ job.pc = "ass"
    /\ IF job.idx >= Len(job.subtitle_lines) \/ tr.stop_processing
       THEN /\ job' = [job EXCEPT !.pc = "write"]
            /\ UNCHANGED net
       ELSE IF job.subtitle_lines[job.idx + 1].clean
                   \in DOMAIN job.translated_in_file
       THEN /\ job' = [job EXCEPT
                 !.lines = AssApply(@, job.idx + 1,
                               job.translated_in_file[
                                   job.subtitle_lines[job.idx + 1].clean]),
                 !.idx = @ + 1]
            /\ UNCHANGED net
       ELSE IF AssBlock # <<>>
       THEN \E outcome \in BatchOutcomes :
               AssBlockDone(
                   AssBlock,
                   TranslateBatchWithContextOllama(tr.stop_processing, AssBlock,
                                                   outcome),
                   AssBlockApplied(
                       job.lines, job.translated_in_file, AssBlock,
                       TranslateBatchWithContextOllama(tr.stop_processing,
                                                       AssBlock, outcome).list,
                       config.ass_batch_size))
       ELSE /\ job' = [job EXCEPT !.pc = "ass_pair"]
            /\ UNCHANGED net
    /\ UNCHANGED <<dir, proc, tr, translations>>
    /\ TrFrame

\* translate_ass: the micro-batch of 2 cues, once batch_result is there
AssPairDone(k, clean_text, clean_text2, r) ==
    /\ net' = BatchTraffic(<<clean_text, clean_text2>>, r)
    /\ job' = IF /\ r.ok
                 /\ Len(r.list) = 2
                 /\ r.list[1] # <<>>
                 /\ r.list[2] # <<>>
              THEN [job EXCEPT
                       !.translated_in_file =
                           Put(Put(@, clean_text, CleanAiResponse(r.list[1])),
                               clean_text2, CleanAiResponse(r.list[2])),
                       !.lines = AssApply(
                                     AssApply(@, k, CleanAiResponse(r.list[1])),
                                     k + 1, CleanAiResponse(r.list[2])),
                       !.idx = @ + 2,
                       !.pc = "ass"]
              ELSE [job EXCEPT !.pc = "ass_single"]

\* translate_ass: the micro-batch of 2 cues
AssPair ==
    /\ job.pc = "ass_pair"
    /\ IF /\ config.ass_batch_size >= 2
          /\ job.idx + 1 < Len(job.subtitle_lines)
          /\ job.subtitle_lines[job.idx + 2].clean
                 \notin DOMAIN job.translated_in_file
       THEN \E outcome \in BatchOutcomes :
               AssPairDone(
                   job.idx + 1,
                   job.subtitle_lines[job.idx + 1].clean,
                   job.subtitle_lines[job.idx + 2].clean,
                   TranslateBatchWithContextOllama(
                       tr.stop_processing,
                       <<job.subtitle_lines[job.idx + 1].clean,
                         job.subtitle_lines[job.idx + 2].clean>>,
                       outcome))
       ELSE /\ job' = [job EXCEPT !.pc = "ass_single"]
            /\ UNCHANGED net
    /\ UNCHANGED <<dir, proc, tr, translations>>
    /\ TrFrame

\* translate_ass: the cue translated alone, once translate_text is back
AssSingleDone(k, clean_text, r, clean_translated) ==
    /\ translations' = r.tbl
    /\ tr' = [tr EXCEPT !.api_failures = @ + r.api_failures]
    /\ net' = TextTraffic(clean_text, r)
    /\ job' = [job EXCEPT
                  !.translated_in_file = Put(@, clean_text, clean_translated),
                  !.lines = AssApply(@, k, clean_translated),
                  !.idx = @ + 1,
                  !.pc = "ass"]

\* prev_line and next_line of cue k of subtitle_lines
PrevLine(k) == IF k > 1 THEN job.subtitle_lines[k - 1].clean ELSE <<>>

NextLine(k) ==
    IF k < Len(job.subtitle_lines) THEN job.subtitle_lines[k + 1].clean ELSE <<>>

\* translate_text as translate_ass calls it for cue k
AssTranslateText(k, outcome) ==
    TranslateText(tr.stop_processing, translations,
                  job.subtitle_lines[k].clean, PrevLine(k), NextLine(k), outcome)

\* translate_ass: the cue translated alone, with the cues around it
AssSingle ==
    /\ job.pc = "ass_single"
    /\ \E outcome \in SingleOutcomes :
          AssSingleDone(job.idx + 1, job.subtitle_lines[job.idx + 1].clean,
                        AssTranslateText(job.idx + 1, outcome),
                        CleanAiResponse(
                            AssTranslateText(job.idx + 1, outcome).result))
    /\ UNCHANGED <<dir, proc>>
    /\ TrFrame

\* the chunk of translate_srt that begins after chunk_start unique texts
SrtChunk ==
    SubSeq(job.unique_texts, job.chunk_start + 1,
           IF job.chunk_start + config.srt_batch_size < Len(job.unique_texts)
           THEN job.chunk_start + config.srt_batch_size
           ELSE Len(job.unique_texts))

\* translate_srt: a chunk, once batch_result is there
SrtBatchDone(chunk, r) ==
    /\ net' = BatchTraffic(chunk, r)
    /\ job' = IF r.ok /\ Len(r.list) = Len(chunk)
              THEN [job EXCEPT !.translated_texts = @ \o r.list,
                               !.chunk_start = @ + config.srt_batch_size]
              ELSE [job EXCEPT !.pc = "tbo",
                               !.tbo_texts = chunk,
                               !.tbo_out = <<>>,
                               !.tbo_ret = "srt_batch"]

\* translate_srt: one round of the loop over the chunks of srt_batch_size
\* unique texts
SrtBatch ==
    /\ job.pc = "srt_batch"
    /\ IF job.chunk_start >= Len(job.unique_texts) \/ tr.stop_processing
       THEN /\ job' = [job EXCEPT !.pc = "srt_finish"]
            /\ UNCHANGED net
       ELSE \E outcome \in BatchOutcomes :
               SrtBatchDone(SrtChunk,
                            TranslateBatchWithContextOllama(tr.stop_processing,
                                                            SrtChunk, outcome))
    /\ UNCHANGED <<dir, proc, tr, translations>>
    /\ TrFrame

\* translate_batch_optimized has come to its end with the list out
TboReturn(out) ==
    IF job.tbo_ret = "srt_batch"
    THEN [job EXCEPT !.translated_texts = @ \o out,
                     !.chunk_start = @ + config.srt_batch_size,
                     !.tbo_texts = <<>>, !.tbo_out = <<>>, !.tbo_ret = "",
                     !.pc = "srt_batch"]
    ELSE [job EXCEPT !.translated_texts = out,
                     !.tbo_texts = <<>>, !.tbo_out = <<>>, !.tbo_ret = "",
                     !.pc = "srt_finish"]

\* _translate_chunk: one text, once translate_text is back or was left out
TranslateChunkDone(text, r) ==
    /\ translations' = r.tbl
    /\ tr' = [tr EXCEPT !.api_failures = @ + r.api_failures]
    /\ net' = TextTraffic(text, r)
    /\ job' = IF Len(job.tbo_out) + 1 = Len(job.tbo_texts)
              THEN TboReturn(Append(job.tbo_out, r.result))
              ELSE [job EXCEPT !.tbo_out = Append(@, r.result)]

\* Translator.translate_batch_optimized: one text of a chunk of 2
\* (_translate_chunk), with the stop test at the head of each chunk
TranslateBatchOptimized ==
    /\ job.pc = "tbo"
    /\ IF \/ Len(job.tbo_out) >= Len(job.tbo_texts)
          \/ (Len(job.tbo_out) % 2 = 0 /\ tr.stop_processing)
       THEN /\ job' = TboReturn(job.tbo_out)
            /\ UNCHANGED <<tr, net, translations>>
       ELSE \E outcome \in SingleOutcomes :
               TranslateChunkDone(
                   job.tbo_texts[Len(job.tbo_out) + 1],
                   TranslateText(
                       \/ tr.stop_processing
                       \/ ~IsTranslatableText(job.tbo_texts[Len(job.tbo_out) + 1]),
                       translations, job.tbo_texts[Len(job.tbo_out) + 1],
                       <<>>, <<>>, outcome))
    /\ UNCHANGED <<dir, proc>>
    /\ TrFrame

\* translate_srt: the translations put back at the places of the cues; the
\* IndexError of a list that is too short ends translate_subtitle with None
SrtFinish ==
    /\ job.pc = "srt_finish"
    /\ LET m == Len(job.duplicate_map)
       IN  IF \E i \in 1..m : job.duplicate_map[i] > Len(job.translated_texts)
           THEN job' = [NoJob EXCEPT !.pc = "returned", !.result = "none"]
           ELSE job' = [job EXCEPT
                   !.lines =
                       [i \in 1..Len(job.lines) |->
                           IF \E k \in 1..m : job.subtitle_lines[k].i = i
                           THEN LET k == CHOOSE k \in 1..m :
                                             job.subtitle_lines[k].i = i
                                IN  CleanAiResponse(
                                        job.translated_texts[job.duplicate_map[k]])
                           ELSE job.lines[i]],
                   !.pc = "write"]
    /\ UNCHANGED <<dir, proc, tr, net, translations>>
    /\ TrFrame

\* Translator.translate_subtitle: safe_write_subtitle(output_file, ...)
WriteOutput ==
    /\ job.pc = "write"
    /\ dir' = [dir EXCEPT !.output = <<job.lines>>]
    /\ net' = [net EXCEPT !.wrote = TRUE]
    /\ job' = [NoJob EXCEPT !.pc = "returned", !.result = "output"]
    /\ UNCHANGED <<proc, tr, translations>>
    /\ TrFrame

\* FileProcessor.process_all, after translate_subtitle: the base file removed
ProcessResult ==
    /\ proc.pc = "call"
    /\ job.pc = "returned"
    /\ \E unlinked \in BOOLEAN :
          dir' = IF job.result = "output" /\ unlinked
                 THEN [dir EXCEPT !.base = FALSE] ELSE dir
    /\ job' = NoJob
    /\ proc' = [proc EXCEPT !.pc = "idle"]
    /\ UNCHANGED <<tr, net, translations>>
    /\ TrFrame

\* FileProcessor.stop, called while process_all runs
Stop ==
    /\ ~proc.stop_flag
    /\ proc.pc # "idle"
    /\ proc' = [proc EXCEPT !.stop_flag = TRUE]
    /\ tr' = [tr EXCEPT !.stop_processing = TRUE]
    /\ net' = [net EXCEPT !.cancelled = @ \/ WorkLeft]
    /\ UNCHANGED <<dir, job, translations>>
    /\ TrFrame

TranslatorNext ==
    \/ ProcessAll
    \/ ProcessFile
    \/ TranslateSubtitle
    \/ AssLoop
    \/ AssPair
    \/ AssSingle
    \/ SrtBatch
    \/ TranslateBatchOptimized
    \/ SrtFinish
    \/ WriteOutput
    \/ ProcessResult
    \/ Stop

----------------------------------------------------------------------------
(* Translator.translate_text, one line at a time, request by request *)

\* calls of translate_text made on one Translator
MaxLines == 2

\* lines with a pronoun or a negation
LineSheRan == <<"S", "h", "e", " ", "r", "a", "n">>
LineNotHer == <<"N", "o", "t", " ", "h", "e", "r">>

TextLines == {LineSheRan, LineNotHer, LineCongratulations, LineMusicLa}

\* answers of the server: renderings of 10, 8, 7 and 9 characters, the line
\* in capitals, renderings that lose the negation or the gender, one letter
ReplyElaCorreu == <<"E", "l", "a", " ", "c", "o", "r", "r", "e", "u">>
ReplyEleCorreu == <<"E", "l", "e", " ", "c", "o", "r", "r", "e", "u">>
ReplyElaFoge == <<"E", "l", "a", " ", "f", "o", "g", "e">>
ReplyElaFoi == <<"E", "l", "a", " ", "f", "o", "i">>
ReplySheRan == <<"S", "H", "E", " ", "R", "A", "N">>
ReplyDele == <<"D", "e", "l", "e">>
ReplyNuncaDele == <<"N", "u", "n", "c", "a", " ", "d", "e", "l", "e">>
ReplyNuncaDela == <<"N", "u", "n", "c", "a", " ", "d", "e", "l", "a">>
ReplyNunca == <<"N", "u", "n", "c", "a", " ">>
ReplyP == <<"P">>

Replies(text) ==
    CASE text = LineSheRan ->
            {ReplyElaCorreu, ReplyEleCorreu, ReplyElaFoge, ReplyElaFoi,
             ReplySheRan, LineSheRan}
      [] text = LineNotHer ->
            {ReplyDele, ReplyNuncaDele, ReplyNuncaDela, ReplyNunca}
      [] text = LineCongratulations -> {ReplyP, Translate(text)}
      [] OTHER -> {Translate(text)}

\* translation_temperature of the configuration, in tenths
Temperatures == {3, 5}

\* the backends of the model: the local LLM and a paid one
Backends == {"Ollama", "GPT"}

\* re.findall(r'\b\w+\b', s): the maximal runs of word characters
WordsOf(s) ==
    {SubSeq(s, p[1], p[2]) :
        p \in {q \in (1..Len(s)) \X (1..Len(s)) :
                 /\ q[1] <= q[2]
                 /\ \A i \in q[1]..q[2] : IsWordChar(s[i])
                 /\ (q[1] = 1 \/ ~IsWordChar(s[q[1] - 1]))
                 /\ (q[2] = Len(s) \/ ~IsWordChar(s[q[2] + 1]))}}

\* the words of _english_negations and _portuguese_negations that the lines
\* and the answers of the model can hold
EnglishNegations == {<<"n", "o", "t">>, <<"n", "o">>, <<"n", "e", "v", "e", "r">>}

PortugueseNegations == {<<"n", "u", "n", "c", "a">>, <<"n", "e", "m">>, <<"n", "a", "d", "a">>}

\* SubtitleQualityValidator._check_semantic_inversion
CheckSemanticInversion(original, translated) ==
    /\ \/ WordsOf(Lower(original)) \cap EnglishNegations # {}
       \/ Contains(<<"n", "'", "t">>, Lower(original))
    /\ WordsOf(Lower(translated)) \cap PortugueseNegations = {}

Feminine == {<<"e", "l", "a">>, <<"d", "e", "l", "a">>}

Masculine == {<<"e", "l", "e">>, <<"d", "e", "l", "e">>}

\* the pronoun tests on the words of the line and of the translation
PronounMismatch(orig_words, trans_words) ==
        \/ /\ orig_words \cap {<<"s", "h", "e">>, <<"h", "e", "r">>,
                               <<"h", "e", "r", "s">>} # {}
           /\ trans_words \cap Masculine # {}
           /\ trans_words \cap (Feminine \cup {<<"e", "l", "h", "a">>}) = {}
        \/ /\ orig_words \cap {<<"h", "e">>, <<"h", "i", "m">>,
                               <<"h", "i", "s">>} # {}
           /\ trans_words \cap Feminine # {}
           /\ trans_words \cap Masculine = {}

\* SubtitleQualityValidator._check_pronoun_mismatch
CheckPronounMismatch(original, translated) ==
    PronounMismatch(WordsOf(Lower(original)), WordsOf(Lower(translated)))

\* the confidence left by the issues found, in tenths: an issue takes 0.4,
\* 0.5, 0.3 (length ratio below 0.2) or 0.2 (above 4.0) away; never below 0
Confidence(inversion, mismatch, len_t, len_o) ==
    LET confidence ==
            10 - (IF inversion THEN 4 ELSE 0) - (IF mismatch THEN 5 ELSE 0)
               - (IF len_t * 5 < (IF len_o > 1 THEN len_o ELSE 1) THEN 3
                  ELSE IF len_t > 4 * (IF len_o > 1 THEN len_o ELSE 1) THEN 2
                  ELSE 0)
    IN  IF confidence < 0 THEN 0 ELSE confidence

\* SubtitleQualityValidator.validate_line_translation: the confidence, in
\* tenths; no answer of the model starts with an artifact or holds a CJK
\* character; is_valid is confidence >= 0.3
ValidationConfidence(original, translated) ==
    IF original = <<>> \/ translated = <<>> THEN 0
    ELSE IF Lower(Strip(original)) = Lower(Strip(translated)) THEN 0
    ELSE Confidence(CheckSemanticInversion(original, translated),
                    CheckPronounMismatch(original, translated),
                    Len(Strip(translated)), Len(Strip(original)))

RejectBelow == 3

RetranslateBelow == 6

\* _ollama_translate_v2 on a 200 response; no answer of the model holds
\* 'foresse' or mis-decoded characters
Unquoted(translation) ==
    IF translation # <<>> /\ translation[1] = "\""
       /\ translation[Len(translation)] = "\""
    THEN SubSeq(translation, 2, Len(translation) - 1)
    ELSE translation

OllamaResponseText(text, response) ==
    IF Strip(response) = <<>> THEN text
    ELSE IF Strip(Unquoted(Strip(response))) # <<>>
    THEN Strip(Unquoted(Strip(response)))
    ELSE text

\* translate_text storing whatever differs from the line, with no validation
JudgeResultUnvalidated(api, text, result) ==
    IF Strip(result) = <<>> THEN [kind |-> "empty", cleaned_result |-> <<>>, confidence |-> 10]
    ELSE IF Strip(CleanAiResponse(result)) = Strip(text)
    THEN [kind |-> "identical", cleaned_result |-> CleanAiResponse(result),
          confidence |-> 10]
    ELSE [kind |-> "accepted", cleaned_result |-> CleanAiResponse(result),
          confidence |-> 10]

\* translate_text from the answer of the backend to the test of the
\* confidence: what becomes of the answer
JudgeResult(api, text, result) ==
    IF Strip(result) = <<>>
    THEN [kind |-> "empty", cleaned_result |-> <<>>, confidence |-> 10]
    ELSE IF Strip(CleanAiResponse(result)) = Strip(text)
    THEN [kind |-> "identical", cleaned_result |-> CleanAiResponse(result),
          confidence |-> 10]
    ELSE [kind |->
            IF ValidationConfidence(text, CleanAiResponse(result)) < RejectBelow
            THEN "rejected"
            ELSE IF ~IsTranslationValid(text, CleanAiResponse(result))
            THEN "rejected"
            ELSE IF /\ ValidationConfidence(text, CleanAiResponse(result))
                          < RetranslateBelow
                    /\ api = "Ollama"
            THEN "retranslate"
            ELSE "accepted",
          cleaned_result |-> CleanAiResponse(result),
          confidence |-> ValidationConfidence(text, CleanAiResponse(result))]

\* profile2.temperature of _self_consistency_check, in tenths
SecondTemperature(temperature) ==
    IF temperature + 3 < 7 THEN temperature + 3 ELSE 7

\* len(second.strip()) < len(first_translation.strip()) * 0.8
MuchShorterOrAsShort(second_len, first_len) == second_len * 10 <= first_len * 8

MuchShorter(second_len, first_len) == second_len * 10 < first_len * 8

\* _self_consistency_check past the second request: the translation it returns
SelfConsistencyCheck(original, first_translation, second) ==
    IF second = <<>> \/ Strip(second) = Strip(original) THEN first_translation
    ELSE IF Lower(Strip(first_translation)) = Lower(Strip(second))
    THEN first_translation
    ELSE IF MuchShorter(Len(Strip(second)), Len(Strip(first_translation)))
    THEN Strip(second)
    ELSE first_translation

\* no translate_text call open
NoTextCall ==
    [exists |-> FALSE, api_type |-> "Ollama", temperature |-> 3,
     translators |-> {}, api_status |-> "unknown", stop_processing |-> FALSE,
     validation_rejections |-> 0, api_failures |-> 0,
     identical_translations |-> 0,
     pc |-> "idle", text |-> <<>>, attempt |-> 0, first |-> <<>>,
     confidence |-> 10, second |-> <<>>,
     done |-> 0, result |-> <<>>, kind |-> "none", sent |-> <<>>,
     stopped_in_flight |-> FALSE, quota_seen |-> FALSE]

TextIdle == tt = NoTextCall

\* Translator.__init__: a paid backend enters translators unless
\* api_status.json holds 'quota_exceeded' for it; Ollama always does
TextInit ==
    \E api \in Backends, t \in Temperatures, s \in {"unknown", "quota_exceeded"} :
        /\ api = "Ollama" => s = "unknown"
        /\ tt = [NoTextCall EXCEPT
                    !.exists = TRUE, !.api_type = api, !.temperature = t,
                    !.api_status = s,
                    !.translators = IF api = "GPT" /\ s = "quota_exceeded"
                                    THEN {} ELSE {api}]

TtFrame ==
    UNCHANGED <<cacheVars, now, glossaryVars, classifierVars, translatorVars,
                built, reply_parse, ens, sessionVars>>

\* a request to the backend, as the server sees it
Request(temperature) ==
    [api |-> tt.api_type, text |-> tt.text, temperature |-> temperature,
     call |-> tt.done + 1, stopped |-> tt.stop_processing,
     quota_seen |-> tt.quota_seen, attempt |-> 0, outcome |-> "pending"]

\* the request in flight ends
Outcome(outcome) == [tt EXCEPT !.sent[Len(tt.sent)].outcome = outcome]

\* translate_text returns
Returned(t, result, kind) ==
    [t EXCEPT !.pc = "idle", !.done = @ + 1, !.result = result, !.kind = kind]

\* translate_text(text): from the stop test to the first request, with the
\* locals of the call, the class of the line and the answer of the cache
TtCallWith(text, open, classified_as, cached) ==
    /\ tt.exists /\ tt.pc = "idle" /\ tt.done < MaxLines
    /\     IF tt.stop_processing
           THEN /\ tt' = Returned(open, text, "stopped")
                /\ UNCHANGED translations
           ELSE IF classified_as.type \in {TECHNICAL_TAG, UNTRANSLATABLE, MUSIC_LYRICS}
           THEN /\ tt' = Returned(open, text, "skipped")
                /\ UNCHANGED translations
           ELSE IF classified_as.type = SOUND_EFFECT
           THEN /\ tt' = Returned(open, classified_as.text, "skipped")
                /\ UNCHANGED translations
           ELSE IF Truthy(cached.res) /\ Lower(Strip(cached.res)) # Lower(Strip(text))
           THEN /\ tt' = Returned(open, cached.res, "hit")
                /\ translations' = cached.tbl
           ELSE IF tt.api_type \notin tt.translators
           THEN /\ tt' = Returned([open EXCEPT !.api_failures = @ + 1], text,
                                  "unavailable")
                /\ translations' = cached.tbl
           ELSE /\ tt' = [open EXCEPT
                            !.pc = "request",
                            !.identical_translations =
                                IF Truthy(cached.res) THEN @ + 1 ELSE @,
                            !.sent = <<[Request(tt.temperature) EXCEPT
                                           !.text = text]>>]
                /\ translations' = cached.tbl
    /\ TtFrame

TtCall(text) ==
    TtCallWith(text,
               [tt EXCEPT !.text = text, !.attempt = 0, !.first = <<>>,
                          !.second = <<>>, !.confidence = 10,
                          !.result = <<>>, !.kind = "none", !.sent = <<>>,
                          !.stopped_in_flight = FALSE],
               Classify(text),
               CacheGet(translations, text, <<>>, <<>>))

\* translate_text with the result of the backend at hand: reject, ask for
\* a second translation, or store and return
TtJudged(t, j) ==
        CASE j.kind = "empty" ->
               /\ tt' = Returned([t EXCEPT !.api_failures = @ + 2], t.text,
                                 "empty")
               /\ UNCHANGED translations
          [] j.kind = "identical" ->
               /\ tt' = Returned([t EXCEPT !.identical_translations = @ + 1,
                                            !.api_failures = @ + 1],
                                 t.text, "identical")
               /\ UNCHANGED translations
          [] j.kind = "rejected" ->
               /\ tt' = Returned([t EXCEPT !.validation_rejections = @ + 1,
                                            !.api_failures = @ + 1,
                                            !.first = j.cleaned_result],
                                 t.text, "rejected")
               /\ UNCHANGED translations
          [] j.kind = "retranslate" ->
               /\ tt' = [t EXCEPT
                           !.pc = "second", !.attempt = 0,
                           !.first = j.cleaned_result,
                           !.confidence = j.confidence,
                           !.sent = Append(@, Request(SecondTemperature(t.temperature)))]
               /\ UNCHANGED translations
          [] j.kind = "accepted" ->
               /\ tt' = Returned([t EXCEPT
                                    !.first = j.cleaned_result,
                                    !.confidence = j.confidence],
                                 j.cleaned_result, "accepted")
               /\ translations' =
                     IF SetRefused(t.text, j.cleaned_result) THEN translations
                     ELSE TcSetRows(translations, t.text, j.cleaned_result,
                                    SrcLang, TgtLang, t.api_type, <<>>, <<>>)

TtResult(t, result) == TtJudged(t, JudgeResult(t.api_type, t.text, result))

\* translate_text stores the translation and returns it
TtStore(t, second, cleaned_result) ==
    /\ tt' = Returned([t EXCEPT !.second = second], cleaned_result, "accepted")
    /\ translations' =
          IF SetRefused(tt.text, cleaned_result) THEN translations
          ELSE TcSetRows(translations, tt.text, cleaned_result, SrcLang,
                         TgtLang, tt.api_type, <<>>, <<>>)

\* _self_consistency_check returns
TtSecond(t, second) ==
    TtStore(t, second, SelfConsistencyCheck(t.text, t.first, second))

\* what _ollama_translate_v2 returned goes back to its caller
OllamaReturns(t, value) ==
    IF t.pc = "request" THEN TtResult(t, value) ELSE TtSecond(t, value)

\* the server answers 200 with a response
OllamaReply ==
    /\ tt.pc \in {"request", "second"} /\ tt.api_type = "Ollama"
    /\ \E response \in Replies(tt.text) \cup {<<>>} :
          OllamaReturns(Outcome("answer"),
                        OllamaResponseText(tt.text, response))
    /\ TtFrame

\* requests.exceptions.Timeout with no second request
OllamaTimeoutNoRetry ==
    /\ tt.pc \in {"request", "second"} /\ tt.api_type = "Ollama"
    /\ OllamaReturns(Outcome("timeout"), tt.text)
    /\ TtFrame

\* requests.exceptions.Timeout: one more request after the first, the text
\* itself after the second
OllamaTimeout ==
    /\ tt.pc \in {"request", "second"} /\ tt.api_type = "Ollama"
    /\ IF tt.attempt = 0
       THEN /\ tt' = [Outcome("timeout") EXCEPT
                        !.attempt = 1,
                        !.sent = Append(@, [@[Len(@)] EXCEPT
                                              !.stopped = tt.stop_processing,
                                              !.attempt = 1,
                                              !.outcome = "pending"])]
            /\ UNCHANGED translations
       ELSE OllamaReturns(Outcome("timeout"), tt.text)
    /\ TtFrame

\* a status other than 200, or an exception other than Timeout
OllamaError ==
    /\ tt.pc \in {"request", "second"} /\ tt.api_type = "Ollama"
    /\ OllamaReturns(Outcome("error"), tt.text)
    /\ TtFrame

\* chat.completions.create answers
GptReply ==
    /\ tt.pc = "request" /\ tt.api_type = "GPT"
    /\ \E content \in Replies(tt.text) \cup {<<>>} :
          TtResult(Outcome("answer"), Strip(content))
    /\ TtFrame

\* chat.completions.create raises; 'quota', 'limit' or 'billing' in the
\* message marks the backend in api_status
GptRaises(quota) ==
    /\ tt.pc = "request" /\ tt.api_type = "GPT"
    /\ tt' = Returned([Outcome("error") EXCEPT
                         !.api_status = IF quota THEN "quota_exceeded" ELSE @,
                         !.quota_seen = @ \/ quota,
                         !.api_failures = @ + 1],
                      tt.text, IF quota THEN "quota" ELSE "error")
    /\ UNCHANGED translations
    /\ TtFrame

\* Translator.stop()
TtStop ==
    /\ tt.exists /\ ~tt.stop_processing
    /\ tt' = [tt EXCEPT !.stop_processing = TRUE,
                        !.stopped_in_flight = (tt.pc # "idle")]
    /\ UNCHANGED translations
    /\ TtFrame

TranslateTextNext ==
    \/ \E text \in TextLines : TtCall(text)
    \/ OllamaReply
    \/ OllamaTimeout
    \/ OllamaError
    \/ GptReply
    \/ \E quota \in BOOLEAN : GptRaises(quota)
    \/ TtStop

----------------------------------------------------------------------------
(* PromptBuilder.build for a local LLM *)

\* PromptBuilder._estimate_tokens, on the length of a text
EstimateTokens(len) == len \div 4

\* len(_SYSTEM_PROMPT_SINGLE)
SystemPromptLen == 423

\* the terms of the glossaries in the model are 8 characters long and their
\* targets 7: an item "  k -> v" takes 20 characters
ItemLen == 20

MaxGlobal == 50

\* PromptBuilder._build_glossary_section: the length of the section, 0 for
\* the empty string; the heading takes 53 characters and the closing rule 70
BuildGlossarySection(has_manager, series_terms, global_terms) ==
    IF ~has_manager \/ series_terms = 0 THEN 0
    ELSE LET items == series_terms + (IF global_terms < MaxGlobal
                                      THEN global_terms ELSE MaxGlobal)
         IN  53 + items * ItemLen + (items - 1) + 70

\* the jobs, profiles and few-shots handed to build in the model: the token
\* budget, the terms of the series and of the global glossary, the lengths
\* of the metadata, context and few-shot sections (0: no such section)
Budgets == {140, 512, 2048}

PromptJobs ==
    [budget : Budgets, has_manager : BOOLEAN, series_terms : {0, 1, 400},
     global_terms : {0, 60}, metadata_len : {0, 80}, context_len : {0, 1200},
     fewshot_len : {0, 800}]

\* one more part if it fits: the parts and the tokens used afterwards
AddIfFits(acc, name, len, budget, in_front) ==
    IF len > 0 /\ acc.used_tokens + EstimateTokens(len) < budget
    THEN [parts |-> IF in_front THEN <<name>> \o acc.parts
                    ELSE Append(acc.parts, name),
          used_tokens |-> acc.used_tokens + EstimateTokens(len)]
    ELSE acc

\* PromptBuilder._build_llm_prompt for a backend that is not a paid one: the
\* parts of the system prompt and of the user message, in order
BuildLlmPrompt(j) ==
    LET s1 == AddIfFits([parts |-> <<"rules">>,
                         used_tokens |-> EstimateTokens(SystemPromptLen)],
                        "glossary",
                        BuildGlossarySection(j.has_manager, j.series_terms,
                                             j.global_terms),
                        j.budget, FALSE)
        s2 == AddIfFits(s1, "metadata", j.metadata_len, j.budget, FALSE)
        u1 == AddIfFits([parts |-> <<>>, used_tokens |-> s2.used_tokens],
                        "context", j.context_len, j.budget, FALSE)
        u2 == AddIfFits(u1, "fewshot", j.fewshot_len, j.budget, TRUE)
    IN  [system |-> s2.parts, user |-> Append(u2.parts, "text")]

BuiltIdle == built = <<>>

BuiltInit == \E j \in PromptJobs : built = <<j>>

\* PromptBuilder.build(backend='Ollama', text, job, fewshot_examples)
Build ==
    /\ Len(built) = 1
    /\ built' = Append(built, BuildLlmPrompt(built[1]))
    /\ UNCHANGED <<cacheVars, now, translations, glossaryVars, classifierVars,
                   translatorVars, tt, reply_parse, ens, sessionVars>>

PromptNext == Build

----------------------------------------------------------------------------
(* Translator._parse_numbered_batch_response *)

\* lines of a batch of at most MaxExpected, replies of at most MaxReplyLines
MaxExpected == 4

MaxReplyLines == 3

\* [│.\):\s] and [-–—]
Separators == {"U+2502", ".", ")", ":"} \cup Whitespace

Dashes == {"-", "U+2013", "U+2014"}

\* the number of characters of s from position start on that are in chars,
\* up to the first that is not
Run(s, start, chars) ==
    Cardinality({k \in start..Len(s) : \A i \in start..k : s[i] \in chars})

\* int(digits)
RECURSIVE IntOf(_)
IntOf(digits) ==
    IF digits = <<>> THEN 0
    ELSE IntOf(SubSeq(digits, 1, Len(digits) - 1)) * 10
         + (CHOOSE n \in 0..9 :
               <<"0", "1", "2", "3", "4", "5", "6", "7", "8", "9">>[n + 1]
                   = digits[Len(digits)])

NoMatch == [ok |-> FALSE, num |-> 0, text |-> <<>>]

\* re.match(r'^(\d+)[│.\):\s]+(.+)$', line), with d leading digits and r
\* separators after them: the last separator is the text when nothing follows
MatchSeparated(s, d, r) ==
    IF d = 0 \/ r = 0 THEN NoMatch
    ELSE IF d + r < Len(s)
    THEN [ok |-> TRUE, num |-> IntOf(SubSeq(s, 1, d)),
          text |-> SubSeq(s, d + r + 1, Len(s))]
    ELSE IF r >= 2
    THEN [ok |-> TRUE, num |-> IntOf(SubSeq(s, 1, d)), text |-> <<s[Len(s)]>>]
    ELSE NoMatch

\* re.match(r'^(\d+)\s*[-–—]?\s+(.+)$', line), with d leading digits, w1
\* blanks after them and w2 blanks after the character that follows those
MatchDashed(s, d, w1, w2) ==
    IF d = 0 THEN NoMatch
    ELSE IF /\ d + w1 < Len(s) /\ s[d + w1 + 1] \in Dashes
            /\ w2 >= 1 /\ d + w1 + 1 + w2 < Len(s)
    THEN [ok |-> TRUE, num |-> IntOf(SubSeq(s, 1, d)),
          text |-> SubSeq(s, d + w1 + 2 + w2, Len(s))]
    ELSE IF w1 >= 1 /\ d + w1 < Len(s)
    THEN [ok |-> TRUE, num |-> IntOf(SubSeq(s, 1, d)),
          text |-> SubSeq(s, d + w1 + 1, Len(s))]
    ELSE NoMatch

\* the wrapping quotes of a translation removed, first ", then '
Dequoted(translation, quote) ==
    IF translation # <<>> /\ translation[1] = quote
       /\ translation[Len(translation)] = quote
    THEN SubSeq(translation, 2, Len(translation) - 1)
    ELSE translation

\* a translation that is empty or made of dots, commas and blanks
JustPunctuation(translation) ==
    \A i \in 1..Len(translation) : translation[i] \in {".", ","} \cup Whitespace

\* the two patterns in turn
MatchLine(s, first) ==
    IF first.ok THEN first
    ELSE MatchDashed(s, Run(s, 1, Digits),
                     Run(s, Run(s, 1, Digits) + 1, Whitespace),
                     Run(s, Run(s, 1, Digits)
                            + Run(s, Run(s, 1, Digits) + 1, Whitespace) + 2,
                         Whitespace))

\* the body of the loop over the lines of the response: the number and the
\* translation a line gives, ok FALSE when it gives none
ParsedLine(match) ==
    IF ~match.ok THEN NoMatch
    ELSE IF JustPunctuation(Dequoted(Dequoted(Strip(match.text), "\""), "'"))
    THEN NoMatch
    ELSE [match EXCEPT !.text = Dequoted(Dequoted(Strip(match.text), "\""), "'")]

ParseLine(l) ==
    IF Strip(l) = <<>> THEN NoMatch
    ELSE ParsedLine(MatchLine(Strip(l),
                              MatchSeparated(Strip(l), Run(Strip(l), 1, Digits),
                                  Run(Strip(l), Run(Strip(l), 1, Digits) + 1,
                                      Separators))))

\* the dict translations after the loop: number -> translation, a later line
\* of the same number taking the place of an earlier one
RECURSIVE ParsedTranslations(_)
ParsedTranslations(lines) ==
    IF lines = <<>> THEN EmptyMap
    ELSE IF ParseLine(lines[Len(lines)]).ok
    THEN Put(ParsedTranslations(SubSeq(lines, 1, Len(lines) - 1)),
             ParseLine(lines[Len(lines)]).num,
             ParseLine(lines[Len(lines)]).text)
    ELSE ParsedTranslations(SubSeq(lines, 1, Len(lines) - 1))

\* the list with every slot kept, however many are missing
OrderedListUnchecked(translations_by_num, expected_count) ==
    IF Cardinality(DOMAIN translations_by_num) * 10 < expected_count * 6
    THEN [ok |-> FALSE, list |-> <<>>]
    ELSE [ok |-> TRUE,
          list |-> [i \in 1..expected_count |->
                      IF i \in DOMAIN translations_by_num
                      THEN translations_by_num[i] ELSE <<>>]]

\* _parse_numbered_batch_response past the loop: None (ok is FALSE) below 60%
\* found or above 30% missing, else the list, <<>> in a slot for None
OrderedList(translations_by_num, expected_count) ==
    IF Cardinality(DOMAIN translations_by_num) * 10 < expected_count * 6
    THEN [ok |-> FALSE, list |-> <<>>]
    ELSE IF (expected_count
                - Cardinality(DOMAIN translations_by_num \cap 1..expected_count))
            * 10 > expected_count * 3
    THEN [ok |-> FALSE, list |-> <<>>]
    ELSE [ok |-> TRUE,
          list |-> [i \in 1..expected_count |->
                      IF i \in DOMAIN translations_by_num
                      THEN translations_by_num[i] ELSE <<>>]]

\* Translator._parse_numbered_batch_response(response_text, expected_count),
\* response_text given as its lines
ParseNumberedBatchResponseText(lines, expected_count) ==
    OrderedList(ParsedTranslations(lines), expected_count)

\* lines a server puts into its reply to a numbered batch
ResponseLines ==
    {<<"1", "U+2502", " ", "O", "i">>,
     <<"2", ".", " ", "V", "a">>,
     <<"3", ")", " ", "\"", "E", "u", "\"">>,
     <<"2", ":", " ", "J", "a">>,
     <<"4", "-", " ", "S", "o">>,
     <<"1", "2", " ", "F", "i", "m">>,
     <<"3", "U+2502", " ", ".", ".", ".">>,
     <<"C", "l", "a", "r", "o", "!">>}

ParsedIdle == reply_parse = <<>>

ParsedInit ==
    \E n \in 1..MaxExpected :
        reply_parse = [expected_count |-> n, lines |-> <<>>, parsed |-> FALSE,
                       result |-> [ok |-> FALSE, list |-> <<>>]]

ParseFrame ==
    UNCHANGED <<cacheVars, now, translations, glossaryVars, classifierVars,
                translatorVars, tt, built, ens, sessionVars>>

\* the server writes one more line of its reply
ResponseLine(l) ==
    /\ ~reply_parse.parsed /\ Len(reply_parse.lines) < MaxReplyLines
    /\ reply_parse' = [reply_parse EXCEPT !.lines = Append(@, l)]
    /\ ParseFrame

\* _parse_numbered_batch_response on the reply
ParseResponse ==
    /\ ~reply_parse.parsed
    /\ reply_parse' =
          [reply_parse EXCEPT
              !.parsed = TRUE,
              !.result = ParseNumberedBatchResponseText(reply_parse.lines,
                                                        reply_parse.expected_count)]
    /\ ParseFrame

ParseNext ==
    \/ \E l \in ResponseLines : ResponseLine(l)
    \/ ParseResponse

----------------------------------------------------------------------------
(* Translator._ensure_ollama_model_available *)

\* files each thread translates with its Translator
MaxFiles == 2

\* a Translator not constructed yet: its own _ollama_pull_lock,
\* _ollama_pulls_inflight and _ollama_warmed, and its cache of /api/tags
\* ("none", or the configured model "present" in or "absent" from the answer)
NoTranslatorYet ==
    [pc |-> "new", pull_lock |-> FALSE, pulls_inflight |-> FALSE,
     warmed |-> FALSE, models_cache |-> "none", files |-> 0]

EnsureIdle == ens = <<>>

\* the server answers /api/tags with at least one model; the configured one
\* may be among them; the configured model is not the one with a fallback
EnsureInit ==
    \E installed \in BOOLEAN :
        ens = [installed |-> installed, pulling |-> {}, pulls |-> 0,
               warmups |-> 0, tr |-> [t \in Threads |-> NoTranslatorYet]]

EnsureFrame ==
    UNCHANGED <<cacheVars, now, translations, glossaryVars, classifierVars,
                translatorVars, tt, built, reply_parse, sessionVars>>

\* Translator._get_ollama_models: is the configured model among the models
\* of the cache, or of a fresh answer of the server
GetOllamaModels(t) ==
    IF ens.tr[t].models_cache # "none" THEN ens.tr[t].models_cache = "present"
    ELSE ens.installed

\* process_series_async or ProcessingWorker.run builds a FileProcessor, whose
\* process_all builds a Translator: __init__ with
\* _validate_ollama_connection, which posts /api/pull when the model is missing
Construct(t) ==
    /\ ens.tr[t].pc = "new"
    /\ IF ens.installed
       THEN ens' = [ens EXCEPT !.tr[t].pc = "ready",
                               !.tr[t].models_cache = "present"]
       ELSE ens' = [ens EXCEPT !.tr[t].pc = "init_pull",
                               !.tr[t].models_cache = "absent",
                               !.pulling = @ \cup {t},
                               !.pulls = @ + 1]
    /\ EnsureFrame

\* _auto_download_model returns inside _validate_ollama_connection
ValidatePullEnds(t, ok) ==
    /\ ens.tr[t].pc = "init_pull"
    /\ ens' = [ens EXCEPT !.tr[t].pc = "ready",
                          !.tr[t].models_cache = IF ok THEN "none" ELSE @,
                          !.pulling = @ \ {t},
                          !.installed = @ \/ ok]
    /\ EnsureFrame

\* the 30 seconds of _ollama_models_cache_ttl_s pass
CacheExpires(t) ==
    /\ ens.tr[t].pc = "ready" /\ ens.tr[t].models_cache # "none"
    /\ ens' = [ens EXCEPT !.tr[t].models_cache = "none"]
    /\ EnsureFrame

\* _ensure_ollama_model_available, called by translate_srt and translate_ass
\* for a file, up to the return or to the /api/pull it posts
EnsureOllamaModelAvailable(t) ==
    /\ ens.tr[t].pc = "ready" /\ ens.tr[t].files < MaxFiles
    /\ IF GetOllamaModels(t)
       THEN ens' = [ens EXCEPT
                       !.tr[t].models_cache = "present",
                       !.tr[t].warmed = TRUE,
                       !.tr[t].files = @ + 1,
                       !.warmups = IF ens.tr[t].warmed THEN @ ELSE @ + 1]
       ELSE IF ens.installed
       THEN ens' = [ens EXCEPT !.tr[t].models_cache = "present",
                               !.tr[t].files = @ + 1]
       ELSE ens' = [ens EXCEPT !.tr[t].pc = "pull",
                               !.tr[t].pull_lock = TRUE,
                               !.tr[t].pulls_inflight = TRUE,
                               !.tr[t].models_cache = "absent",
                               !.pulling = @ \cup {t},
                               !.pulls = @ + 1]
    /\ EnsureFrame

\* _auto_download_model returns inside _ensure_ollama_model_available: the
\* warm-up if the pull succeeded, then the lock released
EnsurePullEnds(t, ok) ==
    /\ ens.tr[t].pc = "pull"
    /\ ens' = [ens EXCEPT
                  !.tr[t].pc = "ready",
                  !.tr[t].pull_lock = FALSE,
                  !.tr[t].pulls_inflight = FALSE,
                  !.tr[t].models_cache = IF ok THEN "none" ELSE @,
                  !.tr[t].warmed = @ \/ ok,
                  !.tr[t].files = @ + 1,
                  !.warmups = IF ok /\ ~ens.tr[t].warmed THEN @ + 1 ELSE @,
                  !.pulling = @ \ {t},
                  !.installed = @ \/ ok]
    /\ EnsureFrame

EnsureNext ==
    \/ \E t \in Threads : Construct(t)
    \/ \E t \in Threads, ok \in BOOLEAN : ValidatePullEnds(t, ok)
    \/ \E t \in Threads : CacheExpires(t)
    \/ \E t \in Threads : EnsureOllamaModelAvailable(t)
    \/ \E t \in Threads, ok \in BOOLEAN : EnsurePullEnds(t, ok)

BackendIdle == TextIdle /\ BuiltIdle /\ ParsedIdle /\ EnsureIdle


----------------------------------------------------------------------------
(* TranslationCache from several threads: self.lock is held for one        *)
(* _get_by_hash or one _save_by_hash at a time, so each of them is a step  *)

\* calls opened in one run
MaxTcCalls == 4

TcText == TextXyz

TcContexts == {<<Empty, Empty>>, <<LineHi, Empty>>}

TcThreadTranslations == {TransUpper, TransPq}

NoTcCall == [pc |-> "idle", op |-> "none", prev |-> <<>>, next |-> <<>>,
             translated |-> <<>>, result |-> None, floor |-> None,
             allowed |-> {}]

TcThreadsIdle == tcc = [th |-> [t \in {} |-> NoTcCall], returned |-> EmptyMap,
                        keys |-> {}, n |-> 0]

TcThreadsInit ==
    tcc = [th |-> [t \in Threads |-> NoTcCall],
           returned |-> [c \in TcContexts |-> None], keys |-> {}, n |-> 0]

TcThreadsFrame ==
    UNCHANGED <<memory_cache, access_order, disk, hung, last, ops, now, accessed,
                glossaryVars, classifierVars, translatorVars, backendVars,
                tjob, cm>>

\* the translations of the calls of set((TcText, prev, next)) that are open
OpenSets(prev, next) ==
    {Strip(tcc.th[u].translated) :
        u \in {x \in Threads : /\ tcc.th[x].op = "set"
                               /\ tcc.th[x].pc \in {"set_v1", "set_v2"}
                               /\ tcc.th[x].prev = prev
                               /\ tcc.th[x].next = next}}

\* a thread calls get(text, src, tgt, prev, next): the refusal of lines 72-73
TcGetCall(t, prev, next) ==
    /\ tcc.th[t].pc \in {"idle", "returned"}
    /\ tcc.n < MaxTcCalls
    /\ tcc' = [tcc EXCEPT
                  !.n = @ + 1,
                  !.keys = @ \cup {<<prev, next>>},
                  !.th[t] = [pc |-> IF GetRefused(TcText) THEN "returned"
                                    ELSE "get_v2",
                             op |-> "get", prev |-> prev, next |-> next,
                             translated |-> <<>>, result |-> None,
                             floor |-> tcc.returned[<<prev, next>>],
                             allowed |-> {tcc.returned[<<prev, next>>]}
                                             \cup OpenSets(prev, next)]]
    /\ UNCHANGED translations
    /\ TcThreadsFrame

\* result = self._get_by_hash(hash_v2), lines 76-79
TcGetV2(t) ==
    /\ tcc.th[t].pc = "get_v2"
    /\ LET c == tcc.th[t]
           r == TcGetByHash(translations,
                            HashV2(TcText, SrcLang, TgtLang, c.prev, c.next))
       IN  /\ translations' = r.tbl
           /\ tcc' = [tcc EXCEPT !.th[t].result = r.result,
                                 !.th[t].pc = IF Truthy(r.result)
                                              THEN "returned" ELSE "get_v1"]
    /\ TcThreadsFrame

\* result = self._get_by_hash(hash_v1), lines 82-84 and 89
TcGetV1(t) ==
    /\ tcc.th[t].pc = "get_v1"
    /\ LET r == TcGetByHash(translations, HashV1(TcText, SrcLang, TgtLang))
       IN  /\ translations' = r.tbl
           /\ tcc' = [tcc EXCEPT !.th[t].result = r.result,
                                 !.th[t].pc = IF Truthy(r.result)
                                              THEN "promote" ELSE "returned"]
    /\ TcThreadsFrame

\* self._save_by_hash(hash_v2, text, result, ..., 'cache_v1_promote'), lines 86-87
TcGetPromote(t) ==
    /\ tcc.th[t].pc = "promote"
    /\ LET c == tcc.th[t]
       IN  translations' =
               TcSaveByHash(translations,
                            HashV2(TcText, SrcLang, TgtLang, c.prev, c.next),
                            TcText, c.result, "cache_v1_promote")
    /\ tcc' = [tcc EXCEPT !.th[t].pc = "returned"]
    /\ TcThreadsFrame

\* a thread calls set(original_text, translated_text, ...): the refusals of
\* lines 135-140; the gets that are open may see this translation
TcSetCall(t, translated, prev, next) ==
    /\ tcc.th[t].pc \in {"idle", "returned"}
    /\ tcc.n < MaxTcCalls
    /\ tcc' = [tcc EXCEPT
                  !.n = @ + 1,
                  !.keys = @ \cup {<<prev, next>>},
                  !.th = [u \in Threads |->
                            IF u = t
                            THEN [pc |-> IF SetRefused(TcText, translated)
                                         THEN "returned" ELSE "set_v1",
                                  op |-> "set", prev |-> prev, next |-> next,
                                  translated |-> translated, result |-> None,
                                  floor |-> None, allowed |-> {}]
                            ELSE IF /\ tcc.th[u].op = "get"
                                    /\ tcc.th[u].pc # "returned"
                                    /\ tcc.th[u].prev = prev
                                    /\ tcc.th[u].next = next
                                    /\ ~SetRefused(TcText, translated)
                                 THEN [tcc.th[u] EXCEPT !.allowed =
                                          @ \cup {Strip(translated)}]
                                 ELSE tcc.th[u]]]
    /\ UNCHANGED translations
    /\ TcThreadsFrame

\* self._save_by_hash(hash_v1, ...), lines 143-145, and the test of line 150
TcSetV1(t) ==
    /\ tcc.th[t].pc = "set_v1"
    /\ LET c == tcc.th[t]
           hash_v1 == HashV1(TcText, SrcLang, TgtLang)
           hash_v2 == HashV2(TcText, SrcLang, TgtLang, c.prev, c.next)
       IN  /\ translations' = TcSaveByHash(translations, hash_v1, TcText,
                                           c.translated, ApiUsed)
           /\ tcc' = IF hash_v2 # hash_v1
                     THEN [tcc EXCEPT !.th[t].pc = "set_v2"]
                     ELSE [tcc EXCEPT !.th[t].pc = "returned",
                                      !.returned[<<c.prev, c.next>>] =
                                          Strip(c.translated)]
    /\ TcThreadsFrame

\* self._save_by_hash(hash_v2, ...), lines 151-152: set returns
TcSetV2(t) ==
    /\ tcc.th[t].pc = "set_v2"
    /\ LET c == tcc.th[t]
       IN  /\ translations' =
                  TcSaveByHash(translations,
                               HashV2(TcText, SrcLang, TgtLang, c.prev, c.next),
                               TcText, c.translated, ApiUsed)
           /\ tcc' = [tcc EXCEPT !.th[t].pc = "returned",
                                 !.returned[<<c.prev, c.next>>] =
                                     Strip(c.translated)]
    /\ TcThreadsFrame

TcThreadsNext ==
    \/ \E t \in Threads, c \in TcContexts : TcGetCall(t, c[1], c[2])
    \/ \E t \in Threads : TcGetV2(t)
    \/ \E t \in Threads : TcGetV1(t)
    \/ \E t \in Threads : TcGetPromote(t)
    \/ \E t \in Threads, translated \in TcThreadTranslations, c \in TcContexts :
          TcSetCall(t, translated, c[1], c[2])
    \/ \E t \in Threads : TcSetV1(t)
    \/ \E t \in Threads : TcSetV2(t)




----------------------------------------------------------------------------
(* TranslationJob.translation_context (modules/prompt_builder.py) and the  *)
(* lines Translator.translate_text puts into it                            *)

\* lines appended to the context of one job in one run
MaxAppends == 6

\* profile.context_window_size
WindowSizes == 0..10

\* lines of the `context` argument of translate_text that no add_context
\* of the job has seen; the translations of the job are 1, 2, ...
ContextLines == {-1, -2}

\* seq[-n:] of Python: the last n elements, and the whole list when n = 0
LastElements(seq, n) ==
    IF n = 0 \/ n >= Len(seq) THEN seq
    ELSE SubSeq(seq, Len(seq) - n + 1, Len(seq))

\* TranslationJob.add_context
AddContext(context_window_size, translation_context, translated_line) ==
    LET appended == Append(translation_context, translated_line)
        max_ctx == context_window_size * 2
    IN  IF Len(appended) > max_ctx THEN LastElements(appended, max_ctx)
        ELSE appended

\* TranslationJob.get_recent_context
GetRecentContext(context_window_size, translation_context) ==
    LastElements(translation_context, context_window_size)

\* translate_text, lines 1262-1265: the lines of effective_context that
\* the context of the job does not hold are appended to it
RECURSIVE InjectContext(_, _)
InjectContext(translation_context, effective_context) ==
    IF effective_context = <<>> THEN translation_context
    ELSE InjectContext(IF InSeq(translation_context, Head(effective_context))
                       THEN translation_context
                       ELSE Append(translation_context, Head(effective_context)),
                       Tail(effective_context))

\* the lines the context has that it had not
NewLines(before, after) == SubSeq(after, Len(before) + 1, Len(after))

\* a TranslationJob nobody uses
ContextIdle == tjob = [exists |-> FALSE]

ContextInit ==
    \E w \in WindowSizes :
        tjob = [exists |-> TRUE, context_window_size |-> w,
                translation_context |-> <<>>, appended |-> <<>>, n |-> 0]

ContextFrame ==
    UNCHANGED <<cacheVars, now, translations, glossaryVars, classifierVars,
                translatorVars, backendVars, tcc, cm>>

\* job.add_context(translated_line) on its own
JobAddContext ==
    /\ tjob.exists
    /\ Len(tjob.appended) < MaxAppends
    /\ LET translated_line == tjob.n + 1
       IN  tjob' = [tjob EXCEPT
                      !.n = translated_line,
                      !.appended = Append(@, translated_line),
                      !.translation_context =
                          AddContext(tjob.context_window_size, @, translated_line)]
    /\ ContextFrame

\* translate_text(text, context=...) of a line that reaches the backend:
\* the context is put into the job (lines 1236-1239, 1262-1265) and, when
\* the translation is accepted, job.add_context(cleaned_result) (line 1399)
TranslateTextOnJob(context, accepted) ==
    /\ tjob.exists
    /\ Len(tjob.appended) + Len(context) + 1 <= MaxAppends
    /\ LET effective_context ==
               IF context # <<>> THEN context
               ELSE GetRecentContext(tjob.context_window_size,
                                     tjob.translation_context)
           injected == InjectContext(tjob.translation_context, effective_context)
           cleaned_result == tjob.n + 1
       IN  tjob' = IF accepted
                   THEN [tjob EXCEPT
                           !.n = cleaned_result,
                           !.appended = @ \o NewLines(tjob.translation_context,
                                                      injected)
                                          \o <<cleaned_result>>,
                           !.translation_context =
                               AddContext(tjob.context_window_size, injected,
                                          cleaned_result)]
                   ELSE [tjob EXCEPT
                           !.appended = @ \o NewLines(tjob.translation_context,
                                                      injected),
                           !.translation_context = injected]
    /\ ContextFrame

ContextNext ==
    \/ JobAddContext
    \/ \E c \in {<<>>} \cup {<<l>> : l \in ContextLines}, accepted \in BOOLEAN :
          TranslateTextOnJob(c, accepted)


----------------------------------------------------------------------------
(* CancellationManager and CancellableOperation (modules/cancellation.py)  *)

\* operations one thread is inside at a time, one `with` within the other
MaxDepth == 2

\* the timeout of wait_for_threads, in sleeps of its loop
WaitTimeout == 2

NoWait == [pc |-> "idle", elapsed |-> 0, result |-> "none", busy |-> {}]

\* a CancellationManager nobody uses
CancellationIdle == cm = [exists |-> FALSE]

\* CancellationManager.__init__
CancellationInit ==
    cm = [exists |-> TRUE, active_threads |-> {},
          inside |-> [t \in Threads |-> 0], wait |-> NoWait]

CancellationFrame ==
    UNCHANGED <<cacheVars, now, translations, glossaryVars, classifierVars,
                translatorVars, backendVars, tcc, tjob>>

\* CancellationManager.register_thread
RegisterThread(active_threads, thread_id) == active_threads \cup {thread_id}

\* CancellationManager.unregister_thread
UnregisterThread(active_threads, thread_id) == active_threads \ {thread_id}

\* CancellableOperation.__enter__, on the thread t
Enter(t) ==
    /\ cm.exists
    /\ cm.inside[t] < MaxDepth
    /\ cm' = [cm EXCEPT !.inside[t] = @ + 1,
                        !.active_threads = RegisterThread(@, t)]
    /\ CancellationFrame

\* CancellableOperation.__exit__ of the operation the thread t entered last
Exit(t) ==
    /\ cm.exists
    /\ cm.inside[t] > 0
    /\ cm' = [cm EXCEPT !.inside[t] = @ - 1,
                        !.active_threads = UnregisterThread(@, t)]
    /\ CancellationFrame

\* wait_for_threads(timeout) is called: start_time = time.time()
WaitForThreadsCall ==
    /\ cm.exists
    /\ cm.wait.pc \in {"idle", "returned"}
    /\ cm' = [cm EXCEPT !.wait = [NoWait EXCEPT !.pc = "loop"]]
    /\ CancellationFrame

\* the test of the while of line 110, and time.sleep(0.1) when it holds
WaitForThreadsLoop ==
    /\ cm.exists
    /\ cm.wait.pc = "loop"
    /\ cm' = IF cm.active_threads # {} /\ cm.wait.elapsed < WaitTimeout
             THEN [cm EXCEPT !.wait.elapsed = @ + 1]
             ELSE [cm EXCEPT !.wait.pc = "return"]
    /\ CancellationFrame

\* return len(self.active_threads) == 0; busy: the threads that are inside
\* an operation at that moment
WaitForThreadsReturn ==
    /\ cm.exists
    /\ cm.wait.pc = "return"
    /\ cm' = [cm EXCEPT
                !.wait.pc = "returned",
                !.wait.result = IF cm.active_threads = {} THEN "true" ELSE "false",
                !.wait.busy = {t \in Threads : cm.inside[t] > 0}]
    /\ CancellationFrame

CancellationNext ==
    \/ \E t \in Threads : Enter(t)
    \/ \E t \in Threads : Exit(t)
    \/ WaitForThreadsCall
    \/ WaitForThreadsLoop
    \/ WaitForThreadsReturn

----------------------------------------------------------------------------
(* Specifications *)

\* the cache alone, the glossary store untouched
Init ==
    /\ CacheInit /\ TcInit /\ GlossaryInit({EmptyMap})
    /\ ClassifierIdle /\ TranslatorIdle /\ BackendIdle
    /\ TcThreadsIdle /\ ContextIdle /\ CancellationIdle

Next == CacheNext

Spec == Init /\ [][Next]_vars

\* the glossary store alone, the cache untouched
InitGlossary ==
    /\ CacheInit /\ TcInit /\ GlossaryInit(InitFiles)
    /\ ClassifierIdle /\ TranslatorIdle /\ BackendIdle
    /\ TcThreadsIdle /\ ContextIdle /\ CancellationIdle

SpecGlossary == InitGlossary /\ [][GlossaryNext]_vars

\* the SQLite-only cache alone
SpecTranslationCache == Init /\ [][TcNext]_vars

\* the line classifier alone
InitClassifier ==
    /\ CacheInit /\ TcInit /\ GlossaryInit({EmptyMap})
    /\ ClassifierInit /\ TranslatorIdle /\ BackendIdle
    /\ TcThreadsIdle /\ ContextIdle /\ CancellationIdle

SpecClassifier == InitClassifier /\ [][ClassifierNext]_vars

\* the orchestrator and the translator on one subtitle file
InitTranslator ==
    /\ CacheInit /\ TcInit /\ GlossaryInit({EmptyMap})
    /\ ClassifierIdle /\ TranslatorInit /\ BackendIdle
    /\ TcThreadsIdle /\ ContextIdle /\ CancellationIdle

SpecTranslator == InitTranslator /\ [][TranslatorNext]_vars

\* one Translator and its translate_text calls
InitTranslateText ==
    /\ CacheInit /\ TcInit /\ GlossaryInit({EmptyMap})
    /\ ClassifierIdle /\ TranslatorIdle
    /\ TextInit /\ BuiltIdle /\ ParsedIdle /\ EnsureIdle
    /\ TcThreadsIdle /\ ContextIdle /\ CancellationIdle

SpecTranslateText == InitTranslateText /\ [][TranslateTextNext]_vars

\* the prompt builder on one job
InitPrompt ==
    /\ CacheInit /\ TcInit /\ GlossaryInit({EmptyMap})
    /\ ClassifierIdle /\ TranslatorIdle
    /\ TextIdle /\ BuiltInit /\ ParsedIdle /\ EnsureIdle
    /\ TcThreadsIdle /\ ContextIdle /\ CancellationIdle

SpecPrompt == InitPrompt /\ [][PromptNext]_vars

\* the batch response parser on one reply
InitParse ==
    /\ CacheInit /\ TcInit /\ GlossaryInit({EmptyMap})
    /\ ClassifierIdle /\ TranslatorIdle
    /\ TextIdle /\ BuiltIdle /\ ParsedInit /\ EnsureIdle
    /\ TcThreadsIdle /\ ContextIdle /\ CancellationIdle

SpecParse == InitParse /\ [][ParseNext]_vars

\* two threads of one process, each with the Translator of its process_all
InitEnsure ==
    /\ CacheInit /\ TcInit /\ GlossaryInit({EmptyMap})
    /\ ClassifierIdle /\ TranslatorIdle
    /\ TextIdle /\ BuiltIdle /\ ParsedIdle /\ EnsureInit
    /\ TcThreadsIdle /\ ContextIdle /\ CancellationIdle

SpecEnsure == InitEnsure /\ [][EnsureNext]_vars


\* two threads on one TranslationCache
InitTcThreads ==
    /\ CacheInit /\ TcInit /\ GlossaryInit({EmptyMap})
    /\ ClassifierIdle /\ TranslatorIdle /\ BackendIdle
    /\ TcThreadsInit /\ ContextIdle /\ CancellationIdle

SpecTcThreads == InitTcThreads /\ [][TcThreadsNext]_vars


\* one TranslationJob and its context
InitContext ==
    /\ CacheInit /\ TcInit /\ GlossaryInit({EmptyMap})
    /\ ClassifierIdle /\ TranslatorIdle /\ BackendIdle
    /\ TcThreadsIdle /\ ContextInit /\ CancellationIdle

SpecContext == InitContext /\ [][ContextNext]_vars


\* one CancellationManager, two worker threads and the thread that shuts down
InitCancellation ==
    /\ CacheInit /\ TcInit /\ GlossaryInit({EmptyMap})
    /\ ClassifierIdle /\ TranslatorIdle /\ BackendIdle
    /\ TcThreadsIdle /\ ContextIdle /\ CancellationInit

SpecCancellation == InitCancellation /\ [][CancellationNext]_vars

----------------------------------------------------------------------------
(* Claims about the cache *)

StoredSet == last.op = "set" /\ last.path = "stored"

HitPaths == {"mem_v2", "disk_v2", "mem_v1", "disk_v1"}

LastHashV2 == HashV2(last.text, SrcLang, TgtLang, last.prev, last.next)

\* C1: a set that is not refused, directly followed by a get with the same
\* text and context, makes that get return the translation the set stored
\* (the stripped translated text).  `last` records the calls of either cache.
C1_SetThenGet ==
    [][(/\ StoredSet
        /\ last'.op = "get"
        /\ last'.text = last.text
        /\ last'.prev = last.prev
        /\ last'.next = last.next)
       => last'.res = Strip(last.translated)]_vars

\* C2: after a set that stored an entry and after a get that returned a hit,
\* the memory tier holds at most memory_cache_size entries.
C2_MemoryWithinCapacity ==
    (~hung /\ (StoredSet \/ (last.op = "get" /\ last.path \in HitPaths)))
        => Cardinality(DOMAIN memory_cache) <= MemoryCacheSize

\* C3: no stored entry, in memory or on disk, has an original equal to its
\* translation ignoring case.
C3_NoEntryEqualIgnoringCase ==
    /\ \A h \in DOMAIN disk :
          Lower(disk[h].original_text) # Lower(disk[h].translated_text)
    /\ \A h \in DOMAIN memory_cache :
          Lower(memory_cache[h].original_text) # Lower(memory_cache[h].translated_text)

\* C4: the hit_count of a disk row never decreases while the row stays in
\* the table.
C4_HitCountMonotonic ==
    [][\A h \in DOMAIN disk \cap DOMAIN disk' :
          disk'[h].hit_count >= disk[h].hit_count]_vars

\* C5: when no cache operation is in progress, every hash of the memory tier
\* has a row on disk.
C5_MemoryBackedByDisk ==
    ~hung => DOMAIN memory_cache \subseteq DOMAIN disk

----------------------------------------------------------------------------
(* Claims about the glossary store *)

\* no thread in a call can take a step
Quiescent == ~ENABLED (\E t \in Threads : ThreadStep(t))

\* the keys of the candidates of `suggested` that pass the filters
AcceptedKeys(suggested) ==
    {Lower(Strip(suggested[i][1])) :
        i \in {j \in 1..Len(suggested) :
                  IsSafeSuggestedTerm(suggested[j][1], suggested[j][2])}}

\* C7: when two threads call merge_suggested_terms concurrently on one series
\* with candidate sets A and B, both calls complete, and the document then
\* holds every accepted candidate of A and of B with a count that is at
\* least the larger of the two min_occurrences.
C7_ConcurrentMergesComplete ==
    (/\ \A t \in Threads : th[t].op = "merge" /\ th[t].suggested # <<>>
     /\ \A t, u \in Threads : th[t].sid = th[u].sid
     /\ Quiescent)
        => /\ \A t \in Threads : th[t].status = "returned"
           /\ \A t \in Threads :
                 /\ th[t].sid \in DOMAIN series_v2
                 /\ \A k \in AcceptedKeys(th[t].suggested) :
                       /\ k \in DOMAIN heap[series_v2[th[t].sid]].terms
                       /\ \A u \in Threads :
                             heap[series_v2[th[t].sid]].terms[k].count
                                 >= th[u].min_occurrences

\* the document of a series in memory, and its file, as sets of at most one
DocOf(hp, v2, s) == IF s \in DOMAIN v2 THEN {hp[v2[s]]} ELSE {}

FileOf(fs, s) == IF s \in DOMAIN fs THEN {fs[s]} ELSE {}

\* C8: every step that changes the document of a series, in memory or on
\* disk, is taken by a thread that holds the lock of that series.
C8_MutationsUnderLock ==
    [][\A s \in Series :
          (\/ DocOf(heap', series_v2', s) # DocOf(heap, series_v2, s)
           \/ FileOf(files', s) # FileOf(files, s))
              => \E t \in Threads : th'[t] # th[t] /\ series_locks[s] = t]_vars

\* C9: save_to_disk(series_id, doc) replaces the series file by doc stamped
\* with schema_version 2 and the current time and returns True, so that
\* load_from_disk(series_id) then returns the terms and episodes_scanned of
\* doc.
C9_SaveThenLoad ==
    [][\A t \in Threads :
          (th[t].op = "save" /\ th[t].pc = "save_write" /\ th'[t].pc = "idle")
              => /\ th'[t].status = "True"
                 /\ ~LoadIsNone(files', th[t].sid)
                 /\ files'[th[t].sid].doc.schema_version = SCHEMA_VERSION
                 /\ files'[th[t].sid].doc.updated_at = now
                 /\ LoadFromDisk(files', th[t].sid, now).terms
                        = heap[th[t].data].terms
                 /\ LoadFromDisk(files', th[t].sid, now).episodes_scanned
                        = heap[th[t].data].episodes_scanned]_vars

\* str.split(): the number of maximal runs of non-whitespace characters
WordCount(s) ==
    Cardinality({i \in 1..Len(s) :
                    s[i] \notin Whitespace /\ (i = 1 \/ s[i - 1] \in Whitespace)})

\* the terms of the series of thread t before and after the body of its merge
TermsBefore(t) ==
    IF th[t].sid \in DOMAIN series_v2 THEN heap[series_v2[th[t].sid]].terms
    ELSE EmptyMap

\* the body of merge_suggested_terms stored or updated key k on behalf of a
\* candidate for which Filter(key, target) holds
StoredOnlyIf(Filter(_, _)) ==
    \A t \in Threads :
        (th[t].pc = "merge_body" /\ th'[t].pc = "save_wait")
            => \A k \in DOMAIN heap'[th'[t].data].terms :
                  (k \notin DOMAIN TermsBefore(t)
                      \/ heap'[th'[t].data].terms[k] # TermsBefore(t)[k])
                      => \E i \in 1..Len(th[t].suggested) :
                            /\ Lower(Strip(th[t].suggested[i][1])) = k
                            /\ heap'[th'[t].data].terms[k].value
                                   = Strip(th[t].suggested[i][2])
                            /\ Filter(k, th[t].suggested[i][2])

FilterWords(k, target) ==
    /\ Len(k) >= 3
    /\ k \notin STOPWORDS_GLOSSARY
    /\ Len(target) <= 80
    /\ WordCount(target) <= 10

FilterSpaces(k, target) ==
    /\ Len(k) >= 3
    /\ k \notin STOPWORDS_GLOSSARY
    /\ Len(target) <= 80
    /\ CountSpaces(target) <= 10

\* C10 as stated: merge_suggested_terms stores or updates a candidate only if
\* its key has at least 3 characters and is no stopword and its target has at
\* most 80 characters and at most 10 words.
C10_StoredOnlyIfTenWords == [][StoredOnlyIf(FilterWords)]_vars

\* C10 as amended: merge_suggested_terms stores or updates a candidate only
\* if its key (stripped, lower case) has at least 3 characters and is no
\* stopword and its target has at most 80 characters and at most 10 space
\* characters.
C10_StoredOnlyIfTenSpaces == [][StoredOnlyIf(FilterSpaces)]_vars

\* a merge has stored the candidate whose target has 11 words and 10 spaces,
\* and has left out the stopword and the short key of its input
C10_Witness ==
    \E t \in Threads :
        /\ th[t].op = "merge" /\ th[t].pc = "save_wait"
        /\ th[t].suggested = SuggestedB
        /\ <<"n", "a", "m", "i">> \in DOMAIN heap[th[t].data].terms
        /\ heap[th[t].data].terms[<<"n", "a", "m", "i">>].value = Tr11Words
        /\ <<"o", "k">> \notin DOMAIN heap[th[t].data].terms

\* C11: a call of merge_prescan_terms with terms completes, and leaves a
\* document with episodes_scanned = 1 whose terms a second call with the
\* same terms would not change: keys are only added, with source
\* llm_prescan, and no existing term is overwritten.
C11_PrescanIdempotent ==
    \A t \in Threads :
        (th[t].op = "prescan" /\ th[t].suggested # <<>> /\ Quiescent)
            => /\ th[t].status = "returned"
               /\ th[t].sid \in DOMAIN series_v2
               /\ heap[series_v2[th[t].sid]].episodes_scanned = 1
               /\ MergePrescanInto(heap[series_v2[th[t].sid]].terms,
                                   th[t].suggested, now)
                      = heap[series_v2[th[t].sid]].terms

\* the file of series s is one json.load rejects
CorruptFile(s) == s \in DOMAIN files /\ files[s].kind = "corrupt"

\* C12: with a corrupt series file, loading raises nothing and the caller
\* goes on; no step replaces the bad file in place; and when a save of that
\* series ends without an OSError, the bad file has been renamed to
\* .corrupt.<ts> and the series file holds the saved document.
C12_CorruptFileSetAside ==
    [][\A t \in Threads :
          /\ (th[t].pc = "idle" /\ th'[t].op \in {"fetch", "load"}
                  /\ th'[t] # th[t] /\ CorruptFile(th'[t].sid))
                 => th'[t].status \in {"returned", "running"}
          /\ \A s \in Series :
                 (CorruptFile(s) /\ files'[s] # files[s]) => s \in corrupt_files'
          /\ (th[t].pc = "save_write" /\ th'[t].pc = "idle"
                  /\ th'[t].status # "False" /\ CorruptFile(th[t].sid))
                 => /\ th[t].sid \in corrupt_files'
                    /\ files'[th[t].sid].kind = "json"]_vars

\* C13: for every input line x, classifying the processed text that
\* classify(x) returned gives the same class and the same processed text as
\* classify(x) gave
C13_ClassifyIdempotent ==
    Len(classified) = 2 => classified[2] = classified[1]

----------------------------------------------------------------------------
(* Claims about the translator and the orchestrator *)

\* the translated file as it stands in the directory
Output == dir.output[1]

\* every cue of the file is a line of music
AllMusic ==
    \A i \in 1..Len(subtitle_file.cues) :
        Classify(CleanText(subtitle_file.fmt, subtitle_file.cues[i])).type
            = MUSIC_LYRICS

\* C14: for a file whose cues are all lines of music, no translation request
\* goes to the backend and the file written equals the input, whatever the
\* batch sizes
C14_MusicFileUntouched ==
    AllMusic =>
        /\ net.calls = 0
        /\ (OutputFileExists(dir.output) => Output = subtitle_file.cues)

\* the requests of the run that carry the text
RequestsWith(text) ==
    {k \in 1..Len(net.sent) :
        \E i \in 1..Len(net.sent[k]) : net.sent[k][i] = text}

\* the inserts of the run into the cache for the text
InsertsOf(text) == {k \in 1..Len(net.inserted) : net.inserted[k] = text}

\* the dialogue strings the cues of the file carry
DialogueTexts ==
    {text \in {CleanText(subtitle_file.fmt, subtitle_file.cues[i]) :
                  i \in 1..Len(subtitle_file.cues)} :
        Classify(text).type = DIALOGUE}

\* C15: within one file a dialogue string goes to the backend in at most one
\* request (no batch having failed) and into the cache at most once, and, the
\* file being written without a cancellation, the cues that carry the same
\* dialogue string read the same afterwards
C15_OneTranslationPerString ==
    /\ \A text \in DialogueTexts :
          /\ net.batch_failed = 0 => Cardinality(RequestsWith(text)) <= 1
          /\ Cardinality(InsertsOf(text)) <= 1
    /\ (net.wrote /\ ~proc.stop_flag) =>
          \A i, j \in 1..Len(subtitle_file.cues) :
              /\ subtitle_file.cues[i] = subtitle_file.cues[j]
              /\ CleanText(subtitle_file.fmt, subtitle_file.cues[i])
                     \in DialogueTexts
              => Output[i] = Output[j]
SentAgain(k, text) == {k2 \in RequestsWith(text) : k2 > k}

\* the cue as the file would carry it with the clean text t in place
CueWith(i, t) ==
    IF subtitle_file.fmt = "ass" THEN ReplaceTextInAss(subtitle_file.cues[i], t)
    ELSE t

\* C17: in a file written without cancellation, every dialogue line of a
\* batch request that failed has gone to the server again in a later
\* request, and every line of the written file is non-empty and is either
\* the line as the input has it or the line with a reply of the server for
\* its text in place
C17_NoLineDroppedOrBlanked ==
    (proc.run = 1 /\ net.wrote /\ ~proc.stop_flag /\ net.failed # {}) =>
        /\ \A k \in net.failed : \A j \in 1..Len(net.sent[k]) :
               net.sent[k][j] \in DialogueTexts
                   => SentAgain(k, net.sent[k][j]) # {}
        /\ \A i \in 1..Len(subtitle_file.cues) :
               /\ Output[i] # <<>>
               /\ LET text == CleanText(subtitle_file.fmt, subtitle_file.cues[i])
                  IN  \/ Output[i] = subtitle_file.cues[i]
                      \/ Output[i] = CueWith(i, text)
                      \/ Output[i] = CueWith(i, CleanAiResponse(Translate(text)))
                      \/ Output[i] = CueWith(i, CleanAiResponse(TranslateAlt(text)))

\* translate_ass: batch_failure_count >= 3 and batch_success_count == 0
BatchFailureLimit == 3

\* C18: within a run of process_all, once BatchFailureLimit batch requests
\* have failed and none has succeeded, batch mode is off and no step sends a
\* further batch request
C18_NoBatchAfterThreeFailures ==
    [][(/\ net.batch_failed >= BatchFailureLimit
        /\ net.batch_ok = 0
        /\ proc'.run = proc.run)
       => /\ net'.batch_calls = net.batch_calls
          /\ ~tr'.batch_translation_enabled]_vars

\* C19: in a first run whose file was written without cancellation and in
\* which the server was asked and answered no request, the written file is
\* the input, cue for cue, and api_failures is the number of lines that
\* went to the server through translate_text
C19_AllTimeoutsKeepInput ==
    (/\ proc.run = 1 /\ net.wrote /\ ~proc.stop_flag
     /\ net.calls > 0 /\ net.answered = 0)
        => /\ Output = subtitle_file.cues
           /\ tr.api_failures = net.submitted

\* C20: a run in which stop() was called while cues of the open file were
\* still to be translated writes no translated file
C20_CancelledFileNotWritten == ~(net.cancelled /\ net.wrote)

----------------------------------------------------------------------------
(* Claims about translate_text, the prompt and the backend *)

\* C21: if cancellation is signalled while the backend call of a line is in
\* flight, no step of that call inserts or modifies a row of the cache
C21_StopInFlightLeavesCache ==
    [][(tt.pc # "idle" /\ tt.stopped_in_flight) => translations' = translations]_vars

\* a cleaned answer that the per-line validation turns down for the line
RejectedByValidation(original, translated) ==
    \/ ValidationConfidence(original, translated) < RejectBelow
    \/ ~IsTranslationValid(original, translated)

\* C22: a call whose answer is rejected by the per-line validation inserts
\* nothing into the cache, returns the line as it was given and raises
\* validation_rejections by exactly 1
C22_RejectedNotCached ==
    [][(/\ tt.pc = "request" /\ tt'.pc = "idle"
        /\ tt'.first # <<>>
        /\ RejectedByValidation(tt.text, tt'.first))
       => /\ translations' = translations
          /\ tt'.result = tt.text
          /\ tt'.validation_rejections = tt.validation_rejections + 1]_vars

C22_Witness ==
    /\ tt.pc = "idle" /\ tt.kind = "rejected"
    /\ tt.text = LineNotHer /\ tt.first = ReplyDele
    /\ tt.result = LineNotHer
    /\ tt.validation_rejections = 1
    /\ translations = EmptyMap

\* requests of the open call beyond those of its first translation: those
\* made by a re-translation
Retranslations ==
    {k \in 1..Len(tt.sent) :
        tt.sent[k].call = tt.done /\ tt.sent[k].temperature # tt.temperature}

\* C23: whenever the result of a local LLM has a validation confidence below
\* 0.6, a re-translation has been issued, with temperature
\* min(0.7, temperature + 0.3), by the time the call returns
C23_LowConfidenceRetranslated ==
    (/\ tt.pc = "idle" /\ tt.done > 0 /\ tt.api_type = "Ollama"
     /\ tt.first # <<>>
     /\ ValidationConfidence(tt.text, tt.first) < RetranslateBelow)
        => /\ Retranslations # {}
           /\ \A k \in Retranslations :
                 tt.sent[k].temperature = SecondTemperature(tt.temperature)

\* the call that just returned went through a self-consistency
\* re-translation that gave the result second
SecondGiven == tt.pc = "idle" /\ tt.done > 0 /\ tt.second # <<>> /\ tt.kind = "accepted"

\* C24, as stated: after a self-consistency re-translation the second result
\* is chosen if and only if its length is at most 0.8 times the length of
\* the first; otherwise the first is kept
C24_SecondIffAtMostFourFifths ==
    SecondGiven =>
        IF Len(Strip(tt.second)) * 10 <= Len(Strip(tt.first)) * 8
        THEN tt.result = Strip(tt.second)
        ELSE tt.result = tt.first

\* C24, amended: the second result is chosen if and only if it is not the
\* line itself, differs from the first beyond letter case and its length is
\* less than 0.8 times the length of the first; otherwise the first is kept
C24_SecondIffBelowFourFifths ==
    SecondGiven =>
        IF /\ Strip(tt.second) # Strip(tt.text)
           /\ Lower(Strip(tt.second)) # Lower(Strip(tt.first))
           /\ Len(Strip(tt.second)) * 10 < Len(Strip(tt.first)) * 8
        THEN tt.result = Strip(tt.second)
        ELSE tt.result = tt.first

\* the second result has exactly 0.8 times the length of the first
C24_Witness ==
    /\ SecondGiven
    /\ tt.first = ReplyEleCorreu /\ tt.second = ReplyElaFoge
    /\ tt.result = ReplyEleCorreu

\* C25: once an error of the backend is classified as quota exhaustion, no
\* further request is sent to that backend by the Translator, and every
\* later line is returned untranslated
C25_NoRequestAfterQuota ==
    /\ \A k \in 1..Len(tt.sent) : ~tt.sent[k].quota_seen
    /\ (tt.quota_seen /\ tt.pc = "idle") => tt.result = tt.text

\* the requests of one _ollama_translate_v2 call: those of the first
\* translation of a translate_text call, or those of its re-translation
GenerateCall(k) ==
    {k2 \in 1..Len(tt.sent) :
        /\ tt.sent[k2].call = tt.sent[k].call
        /\ tt.sent[k2].temperature = tt.sent[k].temperature}

\* C27: a generate request to the local LLM is followed by a second one of
\* the same call exactly when it is the first of the call and timed out; a
\* call sends at most two requests, and a request that failed otherwise is
\* the last of its call
C27_RetryOnlyOnTimeout ==
    \A k \in 1..Len(tt.sent) :
        tt.sent[k].api = "Ollama" =>
            /\ Cardinality(GenerateCall(k)) <= 2
            /\ (tt.sent[k].attempt = 0 /\ tt.sent[k].outcome = "timeout")
                  <=> (k + 1 \in GenerateCall(k) /\ tt.sent[k + 1].attempt = 1)
            /\ tt.sent[k].outcome \in {"error", "answer"}
                  => \A k2 \in GenerateCall(k) : k2 <= k

\* the first request timed out, the second did not time out
C27_Witness ==
    /\ tt.pc = "idle" /\ tt.api_type = "Ollama" /\ Len(tt.sent) = 2
    /\ tt.sent[1].outcome = "timeout" /\ tt.sent[2].attempt = 1
    /\ tt.sent[2].outcome = "error"

\* the sections of the prompt that was built, system and user together
PromptParts ==
    {built[2].system[i] : i \in 1..Len(built[2].system)}
        \cup {built[2].user[i] : i \in 1..Len(built[2].user)}

\* C26: for every job and token budget, the prompt built for a local LLM
\* holds the glossary section whenever the job has glossary terms, and ends
\* with the user text
C26_GlossaryAlwaysInPrompt ==
    Len(built) = 2 =>
        /\ (built[1].has_manager /\ built[1].series_terms > 0)
              => "glossary" \in PromptParts
        /\ built[2].user[Len(built[2].user)] = "text"
        /\ "rules" \in PromptParts

\* the numbers of the lines of the reply that gave a translation, and the
\* slots of the batch among them
NumbersParsed ==
    {ParseLine(reply_parse.lines[k]).num :
        k \in {k2 \in 1..Len(reply_parse.lines) : ParseLine(reply_parse.lines[k2]).ok}}

SlotsFilled == NumbersParsed \cap 1..reply_parse.expected_count

\* the last line of the reply that gives a translation for slot i
LastFor(i) ==
    CHOOSE k \in 1..Len(reply_parse.lines) :
        /\ ParseLine(reply_parse.lines[k]).ok
        /\ ParseLine(reply_parse.lines[k]).num = i
        /\ \A k2 \in (k + 1)..Len(reply_parse.lines) :
              ~(ParseLine(reply_parse.lines[k2]).ok
                /\ ParseLine(reply_parse.lines[k2]).num = i)

\* C28: the parser returns null when fewer than 60% of the expected lines
\* are parsed or more than 30% of the expected slots are missing; otherwise
\* a list of exactly expected_count entries in slot order, null in each
\* missing slot
C28_ParserThresholds ==
    reply_parse # <<>> /\ reply_parse.parsed =>
        IF \/ Cardinality(NumbersParsed) * 10 < reply_parse.expected_count * 6
           \/ (reply_parse.expected_count - Cardinality(SlotsFilled)) * 10
                 > reply_parse.expected_count * 3
        THEN ~reply_parse.result.ok
        ELSE /\ reply_parse.result.ok
             /\ Len(reply_parse.result.list) = reply_parse.expected_count
             /\ \A i \in 1..reply_parse.expected_count :
                   reply_parse.result.list[i] =
                       IF i \in SlotsFilled
                       THEN ParseLine(reply_parse.lines[LastFor(i)]).text
                       ELSE <<>>

\* four lines expected, three slots filled and one missing
C28_Witness ==
    /\ reply_parse # <<>> /\ reply_parse.parsed /\ reply_parse.result.ok
    /\ reply_parse.expected_count = 4
    /\ reply_parse.result.list = <<<<"O", "i">>, <<"J", "a">>, <<"E", "u">>, <<>>>>

\* C29: within one process, no two threads have a pull of the same model in
\* flight at the same time
C29_OnePullInFlight == ens # <<>> => Cardinality(ens.pulling) <= 1

\* C30: at most one warm-up request is sent per process, however many
\* threads and files run the model-availability check
C30_OneWarmupPerProcess == ens # <<>> => ens.warmups <= 1

----------------------------------------------------------------------------
(* Claims about the caches under threads, the job context and cancellation *)

\* C31: a get that starts after a set of the same (text, src, tgt, prev,
\* next) has returned gives the translation of that set or of a set that was
\* open or opened since, never an older one and never nothing, in a run whose
\* calls all name that one key.
C31_GetSeesReturnedSet ==
    \A t \in DOMAIN tcc.th :
        (/\ Cardinality(tcc.keys) = 1
         /\ tcc.th[t].op = "get"
         /\ tcc.th[t].pc = "returned"
         /\ tcc.th[t].floor # None)
            => tcc.th[t].result \in tcc.th[t].allowed

\* the place of a hash in the order of last accesses, 0 when it has none
Stamp(h) ==
    IF \E i \in 1..Len(accessed'.recent) : accessed'.recent[i] = h
    THEN CHOOSE i \in 1..Len(accessed'.recent) : accessed'.recent[i] = h
    ELSE 0

\* the entries a set or a get has just put out of the memory tier
Evicted ==
    (DOMAIN memory_cache \cup accessed'.touched) \ DOMAIN memory_cache'

\* C32: when set or get evicts from the memory tier, every entry it evicts
\* was last accessed (set or hit) before every entry it keeps, entries of
\* one set in the order of their insertion.
C32_EvictsLeastRecentlyAccessed ==
    [][accessed'.touched # {}
          => \A k \in Evicted, j \in DOMAIN memory_cache' : Stamp(k) < Stamp(j)]_vars

\* the n lines appended last to the context of the job
MostRecent(n) ==
    SubSeq(tjob.appended, Len(tjob.appended) - n + 1, Len(tjob.appended))

\* C33: after any operation on a TranslationJob its translation_context
\* holds at most 2 x context_window_size lines, and they are the lines
\* appended last, in their order, for every context_window_size in 0..10.
C33_ContextCapped ==
    tjob.exists =>
        /\ Len(tjob.translation_context) <= 2 * tjob.context_window_size
        /\ tjob.translation_context = MostRecent(Len(tjob.translation_context))

\* C34: a thread that has entered a CancellableOperation and not left it is
\* in active_threads; wait_for_threads returns true only when no thread is
\* inside an operation, and false only when its timeout has elapsed.
C34_RegisteredWhileInside ==
    cm.exists =>
        /\ \A t \in Threads : cm.inside[t] > 0 => t \in cm.active_threads
        /\ cm.wait.result = "true" => cm.wait.busy = {}
        /\ cm.wait.result = "false" => cm.wait.elapsed >= WaitTimeout

\* C35: no thread waits for a series lock that it holds itself, so that
\* every merge_suggested_terms and merge_prescan_terms can end and release
\* the lock of its series.
C35_NoWaitOnOwnLock ==
    \A t \in Threads :
        th[t].pc \in {"merge_wait", "prescan_wait", "save_wait"}
            => series_locks[th[t].sid] # t

\* C36: _evict_lru_entries always comes to an end: every key of the memory
\* tier is in access_order, so that the loop finds an entry to evict for as
\* long as the memory tier holds more than memory_cache_size entries.
C36_EvictionEnds ==
    /\ ~hung
    /\ \A h \in DOMAIN memory_cache : InSeq(access_order, h)


----------------------------------------------------------------------------
(* Claims about deletion of the source file, cached translations and the   *)
(* merges of the glossary store                                            *)

\* C37: process_all removes the source subtitle file only if the
\* translate_subtitle call of that same run wrote the translated file and was
\* not cancelled while cues were still to be translated
C37_DeletedOnlyIfTranslated ==
    [][(dir.base /\ ~dir'.base) => (net.wrote /\ ~net.cancelled)]_vars

\* the row of the cache under the context-free hash of the line of the call
StoredTranslation(tbl) == tbl[HashV1(tt.text, SrcLang, TgtLang)].translated_text

\* C38: every translation that translate_text inserts into the cache passes
\* the per-line validation (basic validity, confidence at least 0.3) in the
\* form in which it is stored
C38_StoredPassedValidation ==
    [][(/\ tt.pc \in {"request", "second"} /\ tt'.pc = "idle"
        /\ tt'.kind = "accepted"
        /\ ~SetRefused(tt.text, tt'.result))
       => /\ IsTranslationValid(tt.text, StoredTranslation(translations'))
          /\ ValidationConfidence(tt.text, StoredTranslation(translations'))
                >= RejectBelow]_vars

\* episodes_scanned of the series in memory, 0 for a series not in memory
EpisodesScanned(h, v2map, series_id) ==
    IF series_id \in DOMAIN v2map THEN h[v2map[series_id]].episodes_scanned
    ELSE 0

TermsInMemory(h, v2map, series_id) ==
    IF series_id \in DOMAIN v2map THEN h[v2map[series_id]].terms ELSE EmptyMap

\* the term is in both maps with the same value, source, count and pinned flag
SameTerm(before, after, k) ==
    /\ k \in DOMAIN after
    /\ after[k].value = before[k].value
    /\ after[k].source = before[k].source
    /\ after[k].count = before[k].count
    /\ after[k].pinned = before[k].pinned

\* C40: merge_suggested_terms leaves the value, source, count and pinned
\* flag of every existing term whose source is not auto_track as they were
C40_MergeKeepsOtherSources ==
    [][\A t \in Threads :
          (th[t].pc = "merge_body" /\ th'[t].pc = "save_wait")
             => LET before == TermsInMemory(heap, series_v2, th[t].sid)
                    after == TermsInMemory(heap', series_v2', th[t].sid)
                IN  \A k \in DOMAIN before :
                       before[k].source # "auto_track"
                          => SameTerm(before, after, k)]_vars

\* the body of a merge has run on a series that holds a term from another
\* source, with a safe suggestion of another value for that term
C40_Witness ==
    \E t \in Threads :
        /\ th[t].op = "merge" /\ th[t].pc = "save_wait"
        /\ LET terms == TermsInMemory(heap, series_v2, th[t].sid)
           IN  \E i \in 1..Len(th[t].suggested) :
                  LET term == th[t].suggested[i][1]
                      translation == th[t].suggested[i][2]
                      k == Lower(Strip(term))
                  IN  /\ IsSafeSuggestedTerm(term, translation)
                      /\ k \in DOMAIN terms
                      /\ terms[k].source # "auto_track"
                      /\ terms[k].value # Strip(translation)

====
